---------------------------- MODULE Spec2Model ----------------------------
(***************************************************************************)
(* Model of be/src/olap/rowset/segment_v2/column_reader.cpp: the scalar    *)
(* column iterator (seek / null-aware batched read) and the zone-map       *)
(* predicate pushdown of ColumnReader.                                     *)
(***************************************************************************)
EXTENDS Integers, Sequences, FiniteSets, TLC

(* ------------------------------ bounds -------------------------------- *)
\* most rows a column holds
MaxRows == 4
\* largest row count a next_batch call asks for
MaxN == 2
\* most pages of a column with a zone-map index
MaxZonePages == 2
\* largest value a zone map or a condition mentions (values are 0..MaxVal)
MaxVal == 1

VARIABLES
    col,     \* the column as stored: [sizes: rows of each data page, nulls: null bit of each ordinal,
             \* encoding: the column's encoding, dict_pages: which data pages are dict-encoded]
    it,      \* the FileColumnIterator: _page, _page_iter, _current_ordinal
    last,    \* the last call on the iterator and what it returned
    anchor,  \* the last seek on the iterator: [kind, ord], and calls: how many
             \* next_batch calls followed it (0, 1, or 2 for "two or more")
    got,     \* rows returned by the next_batch calls since that seek
    rd,      \* the ColumnReader's zone-map metadata: [has_zone_map, page_zone_maps, segment_zone_map]
    call,    \* the calls made on the reader, their arguments and results
    its,     \* the iterator objects created from one reader by new_iterator
    solo,    \* for each iterator handle: the same iterator driven alone, and how many
             \* dict-encoded data pages it has loaded (0, 1, or 2 for "two or more")
    dst      \* the caller's destination block of an array or default-value iterator

vars == <<col, it, last, anchor, got, rd, call, its, solo, dst>>

(* ------------------------- the stored column -------------------------- *)
Min(a, b) == IF a < b THEN a ELSE b

RECURSIVE SumTo(_, _)
SumTo(s, i) == IF i = 0 THEN 0 ELSE s[i] + SumTo(s, i - 1)

\* OrdinalIndexReader::num_data_pages / _num_rows
NumPages == Len(col.sizes)
NumRows == SumTo(col.sizes, NumPages)

\* OrdinalIndexReader::get_first_ordinal / get_last_ordinal (pages are 1-based here)
get_first_ordinal(i) == SumTo(col.sizes, i - 1)
get_last_ordinal(i) == SumTo(col.sizes, i) - 1

\* the row the writer stored at ordinal k: null, or a value that identifies the ordinal
NullRow == [null |-> TRUE, val |-> 0]
Row(k) == IF col.nulls[k + 1] THEN NullRow ELSE [null |-> FALSE, val |-> k + 1]

\* rows at ordinals [from, to)
Rows(from, to) == [j \in 1..(IF to > from THEN to - from ELSE 0) |-> Row(from + j - 1)]

\* a data page on disk: its null bitmap (one bit per row) and its values
\* (the non-null rows only, in order)
PageNumRows(i) == col.sizes[i]
PageNullBitmap(i) == [j \in 1..PageNumRows(i) |-> col.nulls[get_first_ordinal(i) + j]]
PageHasNull(i) == \E j \in 1..PageNumRows(i) : PageNullBitmap(i)[j]
IsValue(r) == ~r.null
PageValues(i) == SelectSeq(Rows(get_first_ordinal(i), get_last_ordinal(i) + 1), IsValue)

(* ------------------------- ordinal index cursor ----------------------- *)
\* OrdinalPageIndexIterator: 0 is the default-constructed cursor, 1..NumPages
\* point at a page, anything above is past the end
IterValid(pi) == pi >= 1 /\ pi <= NumPages
\* next(): every position past the last page is the same invalid cursor
IterNext(pi) == IF pi > NumPages THEN pi ELSE pi + 1
\* OrdinalIndexReader::begin
IndexBegin == 1
\* OrdinalIndexReader::seek_at_or_before: the last page whose first ordinal is <= ord
IndexSeekAtOrBefore(ord) ==
    LET c == {i \in 1..NumPages : get_first_ordinal(i) <= ord}
    IN IF c = {} THEN NumPages + 1 ELSE CHOOSE i \in c : \A j \in c : j <= i

(* ------------------------------ ParsedPage ---------------------------- *)
\* _page is [index, offset_in_page, null_pos, data_pos, has_dict];  index = 0
\* is the empty ParsedPage (operator bool gives false); has_dict says that the
\* page's decoder was given the dictionary
NoPage == [index |-> 0, offset_in_page |-> 0, null_pos |-> 0, data_pos |-> 0,
           has_dict |-> FALSE]
PageLoaded(p) == p.index # 0
PageFirstOrdinal(p) == get_first_ordinal(p.index)
PageRowsOf(p) == IF PageLoaded(p) THEN PageNumRows(p.index) ELSE 0
PageContains(p, ord) ==
    PageLoaded(p) /\ ord >= PageFirstOrdinal(p) /\ ord < PageFirstOrdinal(p) + PageRowsOf(p)
PageHasRemaining(p) == p.offset_in_page < PageRowsOf(p)
PageRemaining(p) == PageRowsOf(p) - p.offset_in_page

(* --------------------------- RleDecoder<bool> ------------------------- *)
\* number of set bits among bm[pos+1 .. pos+n]
RECURSIVE CountNulls(_, _, _)
CountNulls(bm, pos, n) ==
    IF n = 0 \/ pos >= Len(bm) THEN 0
    ELSE (IF bm[pos + 1] THEN 1 ELSE 0) + CountNulls(bm, pos + 1, n - 1)

\* length of the run of bits equal to bm[pos+1] that starts there, at most max
RECURSIVE RunLength(_, _, _, _)
RunLength(bm, pos, bit, max) ==
    IF max = 0 \/ pos >= Len(bm) \/ bm[pos + 1] # bit THEN 0
    ELSE 1 + RunLength(bm, pos + 1, bit, max - 1)

\* RleDecoder::GetNextRun(&is_null, max_run)
GetNextRun(bm, pos, max) ==
    LET bit == IF pos < Len(bm) THEN bm[pos + 1] ELSE FALSE
    IN [is_null |-> bit, run |-> RunLength(bm, pos, bit, max)]

\* FileColumnIterator as constructed: no page, no dictionary decoder; the
\* statistics count the dictionary page reads the iterator asked for and
\* those of them that went to the file
InitIt == [page |-> NoPage, page_iter |-> 0, current_ordinal |-> 0,
           dict_decoder |-> FALSE, use_page_cache |-> FALSE,
           dict_reads |-> 0, dict_disk_reads |-> 0]

(* ---------------------------- page decoder ---------------------------- *)
\* PageDecoder::next_batch(&n, dst): the n values after position pos; a slot
\* the decoder has no value for keeps whatever the destination held
StaleSlot == [null |-> FALSE, val |-> 0]
DecodeValues(vals, pos, n) ==
    [j \in 1..n |-> IF pos + j <= Len(vals) THEN vals[pos + j] ELSE StaleSlot]

\* n null slots of the destination
NullSlots(n) == [j \in 1..n |-> NullRow]

(* ------------------------- FileColumnIterator ------------------------- *)
\* PageIO::read_and_decompress_page for the dictionary page: with
\* use_page_cache a page that is in the page cache is not read from the file
DictPageCacheHit(i) == i.use_page_cache /\ rd.dict_page_cached

\* _read_data_page, lines 672-684: read the dictionary page and keep its decoder
ReadDictPage(i) ==
    [i EXCEPT !.dict_decoder = TRUE,
              !.dict_reads = Min(@ + 1, 2),
              !.dict_disk_reads = IF DictPageCacheHit(i) THEN @ ELSE Min(@ + 1, 2)]

\* _read_data_page that reads the dictionary page for every dict-encoded data
\* page (no test of _dict_decoder)
ReadDataPage_RereadsDict(i, pi) ==
    LET i1 == [i EXCEPT !.page = [index |-> pi, offset_in_page |-> 0, null_pos |-> 0,
                                  data_pos |-> 0, has_dict |-> FALSE]]
    IN IF col.encoding = "DICT_ENCODING" /\ col.dict_pages[pi]
       THEN [ReadDictPage(i1) EXCEPT !.page.has_dict = TRUE]
       ELSE i1

\* _read_data_page: ParsedPage::create gives a page positioned at its start;
\* a data page of a dict-encoded column that is itself dict-encoded gets the
\* dictionary, which is read when the iterator has none yet
ReadDataPage(i, pi) ==
    LET i1 == [i EXCEPT !.page = [index |-> pi, offset_in_page |-> 0, null_pos |-> 0,
                                  data_pos |-> 0, has_dict |-> FALSE]]
    IN IF col.encoding = "DICT_ENCODING" /\ col.dict_pages[pi]
       THEN LET i2 == IF ~i1.dict_decoder THEN ReadDictPage(i1) ELSE i1
            IN [i2 EXCEPT !.page.has_dict = TRUE]
       ELSE i1

\* _seek_to_pos_in_page that positions the value decoder at the row offset,
\* as if the page held no nulls
SeekToPosInPage_IgnoresNulls(page, offset_in_page) ==
    IF page.offset_in_page = offset_in_page THEN page
    ELSE [page EXCEPT !.null_pos = IF PageHasNull(page.index) THEN offset_in_page ELSE @,
                      !.data_pos = offset_in_page,
                      !.offset_in_page = offset_in_page]

\* _seek_to_pos_in_page that skips from the null decoder's current position on
\* a backward seek too (no rewind of the null bitmap)
SeekToPosInPage_NoRewind(page, offset_in_page) ==
    IF page.offset_in_page = offset_in_page THEN page
    ELSE
      IF PageHasNull(page.index)
      THEN LET forward == offset_in_page > page.offset_in_page
               skips == IF forward THEN offset_in_page - page.offset_in_page
                        ELSE offset_in_page
               offset_in_data == IF forward THEN page.data_pos ELSE 0
               skip_nulls == CountNulls(PageNullBitmap(page.index), page.null_pos, skips)
           IN [page EXCEPT !.null_pos = page.null_pos + skips,
                           !.data_pos = offset_in_data + skips - skip_nulls,
                           !.offset_in_page = offset_in_page]
      ELSE [page EXCEPT !.data_pos = offset_in_page,
                        !.offset_in_page = offset_in_page]

\* _seek_to_pos_in_page that takes the data decoder's position of a forward
\* seek from the start of the page
SeekToPosInPage_DataFromStart(page, offset_in_page) ==
    IF page.offset_in_page = offset_in_page THEN page
    ELSE
      IF PageHasNull(page.index)
      THEN LET forward == offset_in_page > page.offset_in_page
               skips == IF forward THEN offset_in_page - page.offset_in_page
                        ELSE offset_in_page
               null_from == IF forward THEN page.null_pos ELSE 0
               skip_nulls == CountNulls(PageNullBitmap(page.index), null_from, skips)
           IN [page EXCEPT !.null_pos = null_from + skips,
                           !.data_pos = skips - skip_nulls,
                           !.offset_in_page = offset_in_page]
      ELSE [page EXCEPT !.data_pos = offset_in_page,
                        !.offset_in_page = offset_in_page]

\* _seek_to_pos_in_page(page, offset_in_page)
SeekToPosInPage(page, offset_in_page) ==
    IF page.offset_in_page = offset_in_page THEN page
    ELSE
      IF PageHasNull(page.index)
      THEN LET forward == offset_in_page > page.offset_in_page
               skips == IF forward THEN offset_in_page - page.offset_in_page
                        ELSE offset_in_page
               offset_in_data == IF forward THEN page.data_pos ELSE 0
               null_from == IF forward THEN page.null_pos ELSE 0
               skip_nulls == CountNulls(PageNullBitmap(page.index), null_from, skips)
           IN [page EXCEPT !.null_pos = null_from + skips,
                           !.data_pos = offset_in_data + skips - skip_nulls,
                           !.offset_in_page = offset_in_page]
      ELSE [page EXCEPT !.data_pos = offset_in_page,
                        !.offset_in_page = offset_in_page]

\* seek_to_first that reads the page under the cursor before it tests the cursor
SeekToFirst_ReadsBeforeTest(i) ==
    LET i1 == [i EXCEPT !.page_iter = IndexBegin]
        i2 == ReadDataPage(i1, i1.page_iter)
    IN IF ~IterValid(i1.page_iter)
       THEN [it |-> i2, st |-> "NotFound", reads |-> 1, lookups |-> 1]
       ELSE [it |-> [i2 EXCEPT !.page = SeekToPosInPage(i2.page, 0),
                               !.current_ordinal = 0],
             st |-> "OK", reads |-> 1, lookups |-> 1]

\* ColumnReader::seek_to_first(&iter) then FileColumnIterator::seek_to_first
SeekToFirst(i) ==
    LET i1 == [i EXCEPT !.page_iter = IndexBegin]
    IN IF ~IterValid(i1.page_iter)
       THEN [it |-> i1, st |-> "NotFound", reads |-> 0, lookups |-> 1]
       ELSE LET i2 == ReadDataPage(i1, i1.page_iter)
            IN [it |-> [i2 EXCEPT !.page = SeekToPosInPage(i2.page, 0),
                                  !.current_ordinal = 0],
                st |-> "OK", reads |-> 1, lookups |-> 1]

\* seek_to_ordinal that never reuses the loaded page
SeekToOrdinal_AlwaysSeeks(i, ord) ==
    LET i1 == [i EXCEPT !.page_iter = IndexSeekAtOrBefore(ord)]
    IN IF ~IterValid(i1.page_iter)
       THEN [it |-> i1, st |-> "NotFound", reads |-> 0, lookups |-> 1]
       ELSE LET i2 == ReadDataPage(i1, i1.page_iter)
            IN [it |-> [i2 EXCEPT
                          !.page = SeekToPosInPage(i2.page, ord - PageFirstOrdinal(i2.page)),
                          !.current_ordinal = ord],
                st |-> "OK", reads |-> 1, lookups |-> 1]

\* FileColumnIterator::seek_to_ordinal(ord)
SeekToOrdinal(i, ord) ==
    IF ~PageLoaded(i.page) \/ ~PageContains(i.page, ord) \/ ~IterValid(i.page_iter)
    THEN LET i1 == [i EXCEPT !.page_iter = IndexSeekAtOrBefore(ord)]
         IN IF ~IterValid(i1.page_iter)
            THEN [it |-> i1, st |-> "NotFound", reads |-> 0, lookups |-> 1]
            ELSE LET i2 == ReadDataPage(i1, i1.page_iter)
                 IN [it |-> [i2 EXCEPT
                               !.page = SeekToPosInPage(i2.page, ord - PageFirstOrdinal(i2.page)),
                               !.current_ordinal = ord],
                     st |-> "OK", reads |-> 1, lookups |-> 1]
    ELSE [it |-> [i EXCEPT !.page = SeekToPosInPage(i.page, ord - PageFirstOrdinal(i.page)),
                           !.current_ordinal = ord],
          st |-> "OK", reads |-> 0, lookups |-> 0]

\* _load_next_page that reports eos although the cursor reached a page
LoadNextPage_StopsEarly(i) ==
    [it |-> [i EXCEPT !.page_iter = IterNext(i.page_iter)], eos |-> TRUE, reads |-> 0]

\* _load_next_page(&eos)
LoadNextPage(i) ==
    LET i1 == [i EXCEPT !.page_iter = IterNext(i.page_iter)]
    IN IF ~IterValid(i1.page_iter)
       THEN [it |-> i1, eos |-> TRUE, reads |-> 0]
       ELSE LET i2 == ReadDataPage(i1, i1.page_iter)
            IN [it |-> [i2 EXCEPT !.page = SeekToPosInPage(i2.page, 0)],
                eos |-> FALSE, reads |-> 1]

\* next_batch(ColumnBlockView), the run loop of a page that has nulls
RECURSIVE ReadNullRuns(_, _, _, _)
ReadNullRuns(i, nrows_to_read, rows, has_null) ==
    IF nrows_to_read = 0 THEN [it |-> i, rows |-> rows, has_null |-> has_null]
    ELSE LET r == GetNextRun(PageNullBitmap(i.page.index), i.page.null_pos, nrows_to_read)
             this_run == r.run
             out == IF r.is_null THEN NullSlots(this_run)
                    ELSE DecodeValues(PageValues(i.page.index), i.page.data_pos, this_run)
             i1 == [i EXCEPT !.page.null_pos = @ + this_run,
                             !.page.data_pos = IF r.is_null THEN @ ELSE @ + this_run,
                             !.page.offset_in_page = @ + this_run,
                             !.current_ordinal = @ + this_run]
         IN IF this_run = 0 THEN [it |-> i, rows |-> rows, has_null |-> has_null]
            ELSE ReadNullRuns(i1, nrows_to_read - this_run, rows \o out,
                              has_null \/ r.is_null)

\* the read of a page without nulls that leaves _current_ordinal alone
ReadPlain_KeepsOrdinal(i, nrows_to_read, rows, has_null) ==
    [it |-> [i EXCEPT !.page.data_pos = @ + nrows_to_read,
                      !.page.offset_in_page = @ + nrows_to_read],
     rows |-> rows \o DecodeValues(PageValues(i.page.index), i.page.data_pos, nrows_to_read),
     has_null |-> has_null]

\* next_batch(ColumnBlockView), a page without nulls
ReadPlain(i, nrows_to_read, rows, has_null) ==
    [it |-> [i EXCEPT !.page.data_pos = @ + nrows_to_read,
                      !.page.offset_in_page = @ + nrows_to_read,
                      !.current_ordinal = @ + nrows_to_read],
     rows |-> rows \o DecodeValues(PageValues(i.page.index), i.page.data_pos, nrows_to_read),
     has_null |-> has_null]

\* next_batch(ColumnBlockView): the loop over pages
RECURSIVE NextBatchLoop(_, _, _, _, _)
NextBatchLoop(i, remaining, rows, has_null, reads) ==
    IF remaining = 0
    THEN [it |-> i, rows |-> rows, has_null |-> has_null, reads |-> reads, st |-> "OK"]
    ELSE LET ld == IF ~PageHasRemaining(i.page) THEN LoadNextPage(i)
                   ELSE [it |-> i, eos |-> FALSE, reads |-> 0]
         IN IF ld.eos
            THEN [it |-> ld.it, rows |-> rows, has_null |-> has_null,
                  reads |-> reads, st |-> "OK"]
            ELSE LET nrows_in_page == Min(remaining, PageRemaining(ld.it.page))
                     r == IF PageHasNull(ld.it.page.index)
                          THEN ReadNullRuns(ld.it, nrows_in_page, rows, has_null)
                          ELSE ReadPlain(ld.it, nrows_in_page, rows, has_null)
                 IN NextBatchLoop(r.it, remaining - nrows_in_page, r.rows, r.has_null,
                                  reads + ld.reads)

\* next_batch without the "*has_null = false" at its start
NextBatch_KeepsHasNull(i, n, has_null_in) == NextBatchLoop(i, n, <<>>, has_null_in, 0)

\* FileColumnIterator::next_batch(size_t* n, ColumnBlockView* dst, bool* has_null);
\* has_null_in is what *has_null held before the call, the rows returned are
\* the *n rows written to dst
NextBatch(i, n, has_null_in) == NextBatchLoop(i, n, <<>>, FALSE, 0)

\* next_batch(MutableColumnPtr), the run loop of a page that has nulls: a null
\* run is this_run calls of insert_data(nullptr, 0)
RECURSIVE ReadNullRunsVec(_, _, _, _)
ReadNullRunsVec(i, nrows_to_read, rows, has_null) ==
    IF nrows_to_read = 0 THEN [it |-> i, rows |-> rows, has_null |-> has_null]
    ELSE LET r == GetNextRun(PageNullBitmap(i.page.index), i.page.null_pos, nrows_to_read)
             this_run == r.run
             out == IF r.is_null THEN NullSlots(this_run)
                    ELSE DecodeValues(PageValues(i.page.index), i.page.data_pos, this_run)
             i1 == [i EXCEPT !.page.null_pos = @ + this_run,
                             !.page.data_pos = IF r.is_null THEN @ ELSE @ + this_run,
                             !.page.offset_in_page = @ + this_run,
                             !.current_ordinal = @ + this_run]
         IN IF this_run = 0 THEN [it |-> i, rows |-> rows, has_null |-> has_null]
            ELSE ReadNullRunsVec(i1, nrows_to_read - this_run, rows \o out,
                                 has_null \/ r.is_null)

\* next_batch(MutableColumnPtr): the loop over pages
RECURSIVE NextBatchVecLoop(_, _, _, _, _)
NextBatchVecLoop(i, remaining, rows, has_null, reads) ==
    IF remaining = 0
    THEN [it |-> i, rows |-> rows, has_null |-> has_null, reads |-> reads, st |-> "OK"]
    ELSE LET ld == IF ~PageHasRemaining(i.page) THEN LoadNextPage(i)
                   ELSE [it |-> i, eos |-> FALSE, reads |-> 0]
         IN IF ld.eos
            THEN [it |-> ld.it, rows |-> rows, has_null |-> has_null,
                  reads |-> reads, st |-> "OK"]
            ELSE LET nrows_in_page == Min(remaining, PageRemaining(ld.it.page))
                     r == IF PageHasNull(ld.it.page.index)
                          THEN ReadNullRunsVec(ld.it, nrows_in_page, rows, has_null)
                          ELSE ReadPlain(ld.it, nrows_in_page, rows, has_null)
                 IN NextBatchVecLoop(r.it, remaining - nrows_in_page, r.rows, r.has_null,
                                     reads + ld.reads)

\* FileColumnIterator::next_batch(size_t* n, MutableColumnPtr& dst, bool* has_null)
NextBatchVec(i, n, has_null_in) == NextBatchVecLoop(i, n, <<>>, FALSE, 0)

(* ------------------------------ zone maps ----------------------------- *)
\* ZoneMapPB: min, max (their string form stands for the value), has_null,
\* has_not_null, pass_all
ZoneMap(mi, ma, hn, hnn, pa) ==
    [min |-> mi, max |-> ma, has_null |-> hn, has_not_null |-> hnn, pass_all |-> pa]

\* the zone maps a file can hold: min and max are set (min <= max) when
\* has_not_null, and left empty otherwise
ZoneMaps ==
    {ZoneMap(mi, ma, hn, TRUE, pa) :
        mi \in 0..MaxVal, ma \in 0..MaxVal, hn \in BOOLEAN, pa \in BOOLEAN}
    \cup {ZoneMap(0, 0, hn, FALSE, pa) : hn \in BOOLEAN, pa \in BOOLEAN}

WrittenZoneMaps == {z \in ZoneMaps : z.min <= z.max /\ (z.pass_all => z.min = 0 /\ z.max = 0)}

\* the segment zone map the writer keeps: the merge of the page zone maps
RECURSIVE MergeZoneMaps(_, _)
MergeZoneMaps(zms, n) ==
    IF n = 0 THEN ZoneMap(0, 0, FALSE, FALSE, FALSE)
    ELSE LET m == MergeZoneMaps(zms, n - 1)
             z == zms[n]
         IN ZoneMap(IF ~z.has_not_null THEN m.min
                    ELSE IF ~m.has_not_null THEN z.min ELSE Min(m.min, z.min),
                    IF ~z.has_not_null THEN m.max
                    ELSE IF ~m.has_not_null THEN z.max
                    ELSE IF m.max > z.max THEN m.max ELSE z.max,
                    m.has_null \/ z.has_null,
                    m.has_not_null \/ z.has_not_null,
                    m.pass_all \/ z.pass_all)

\* WrapperField: a value and its null flag; create_by_type gives a zeroed field
NewWrapperField == [val |-> 0, null |-> FALSE]
\* WrapperField::from_string writes the value and leaves the null flag alone
FromString(f, str) == [f EXCEPT !.val = str]
\* WrapperField::set_null
SetNull(f) == [f EXCEPT !.null = TRUE]

\* CondColumn: nullptr, or one condition on the column.  "TRUE" stands for a
\* condition that is true on every range.
NoCond == [op |-> "nullptr", operand |-> 0]
TrueCond == [op |-> "TRUE", operand |-> 0]
RangeConds ==
    {[op |-> o, operand |-> v] : o \in {"LE", "GE"}, v \in 0..MaxVal}
    \cup {[op |-> "IS_NULL", operand |-> 0], [op |-> "IS_NOT_NULL", operand |-> 0]}
Conds == {NoCond, TrueCond} \cup RangeConds
DelConds == {NoCond} \cup RangeConds

\* CondColumn::eval({min, max}): can a row of a zone with these statistics
\* satisfy the condition?  A null min means the zone has nulls, a null max
\* that it has nothing else.
CondEval(c, mn, mx) ==
    CASE c.op = "TRUE" -> TRUE
      [] c.op = "IS_NULL" -> mn.null
      [] c.op = "IS_NOT_NULL" -> ~mx.null
      [] c.op = "LE" -> mn.null \/ mn.val <= c.operand
      [] c.op = "GE" -> mn.null \/ mx.val >= c.operand
      [] OTHER -> TRUE

\* CondColumn::del_eval({min, max}): DEL_SATISFIED when every row of the zone
\* satisfies the delete condition
CondDelEval(c, mn, mx) ==
    CASE c.op = "IS_NULL" ->
            IF mn.null /\ mx.null THEN "DEL_SATISFIED"
            ELSE IF mn.null THEN "DEL_PARTIAL_SATISFIED" ELSE "DEL_NOT_SATISFIED"
      [] c.op = "IS_NOT_NULL" ->
            IF mn.null /\ mx.null THEN "DEL_NOT_SATISFIED"
            ELSE IF mn.null THEN "DEL_PARTIAL_SATISFIED" ELSE "DEL_SATISFIED"
      [] c.op = "LE" ->
            IF mn.null /\ mx.null THEN "DEL_NOT_SATISFIED"
            ELSE IF mn.null THEN "DEL_PARTIAL_SATISFIED"
            ELSE IF mx.val <= c.operand THEN "DEL_SATISFIED"
            ELSE IF mn.val <= c.operand THEN "DEL_PARTIAL_SATISFIED"
            ELSE "DEL_NOT_SATISFIED"
      [] c.op = "GE" ->
            IF mn.null /\ mx.null THEN "DEL_NOT_SATISFIED"
            ELSE IF mn.null THEN "DEL_PARTIAL_SATISFIED"
            ELSE IF mn.val >= c.operand THEN "DEL_SATISFIED"
            ELSE IF mx.val >= c.operand THEN "DEL_PARTIAL_SATISFIED"
            ELSE "DEL_NOT_SATISFIED"
      [] OTHER -> "DEL_PARTIAL_SATISFIED"

\* ColumnReader::_parse_zone_map(zone_map, min_value_container, max_value_container)
ParseZoneMap(zone_map, min_value_container, max_value_container) ==
    LET mn == IF zone_map.has_not_null THEN FromString(min_value_container, zone_map.min)
              ELSE min_value_container
        mx == IF zone_map.has_not_null THEN FromString(max_value_container, zone_map.max)
              ELSE max_value_container
    IN [min |-> IF zone_map.has_null THEN SetNull(mn) ELSE mn,
        max |-> IF zone_map.has_null /\ ~zone_map.has_not_null THEN SetNull(mx) ELSE mx]

\* _zone_map_match_condition without the test for an empty zone
ZoneMapMatchCondition_NoEmptyTest(zone_map, min_value_container, max_value_container, cond) ==
    IF cond = NoCond \/ zone_map.pass_all THEN TRUE
    ELSE CondEval(cond, min_value_container, max_value_container)

\* _zone_map_match_condition that tests pass_all before the empty zone
ZoneMapMatchCondition_PassAllFirst(zone_map, min_value_container, max_value_container, cond) ==
    IF cond = NoCond \/ zone_map.pass_all THEN TRUE
    ELSE IF ~zone_map.has_not_null /\ ~zone_map.has_null THEN FALSE
    ELSE CondEval(cond, min_value_container, max_value_container)

\* ColumnReader::_zone_map_match_condition
ZoneMapMatchCondition(zone_map, min_value_container, max_value_container, cond) ==
    IF ~zone_map.has_not_null /\ ~zone_map.has_null THEN FALSE
    ELSE IF cond = NoCond \/ zone_map.pass_all THEN TRUE
    ELSE CondEval(cond, min_value_container, max_value_container)

\* match_condition without the early return for a null condition
MatchCondition_NoNullCondTest(cond) ==
    IF ~rd.has_zone_map THEN TRUE
    ELSE LET c == ParseZoneMap(rd.segment_zone_map, NewWrapperField, NewWrapperField)
         IN ~(~rd.segment_zone_map.has_not_null /\ ~rd.segment_zone_map.has_null)
            /\ (rd.segment_zone_map.pass_all \/ cond = NoCond \/ CondEval(cond, c.min, c.max))

\* ColumnReader::match_condition
MatchCondition(cond) ==
    IF ~rd.has_zone_map \/ cond = NoCond THEN TRUE
    ELSE LET c == ParseZoneMap(rd.segment_zone_map, NewWrapperField, NewWrapperField)
         IN ZoneMapMatchCondition(rd.segment_zone_map, c.min, c.max, cond)

\* _get_filtered_pages, the loop: pages i..page_size with the one pair of
\* containers; acc collects page_indexes and the pages each condition was
\* evaluated for
RECURSIVE GetFilteredPagesLoop(_, _, _, _, _, _)
GetFilteredPagesLoop(i, cond_column, delete_condition, mn, mx, acc) ==
    IF i > Len(rd.page_zone_maps) THEN acc
    ELSE
      LET zm == rd.page_zone_maps[i] IN
      IF zm.pass_all
      THEN GetFilteredPagesLoop(i + 1, cond_column, delete_condition, mn, mx,
                                [acc EXCEPT !.page_indexes = Append(@, i)])
      ELSE
        LET c == ParseZoneMap(zm, mn, mx)
            matched == ZoneMapMatchCondition(zm, c.min, c.max, cond_column)
            evaluated == (zm.has_not_null \/ zm.has_null) /\ cond_column # NoCond
            state == IF matched /\ delete_condition # NoCond
                     THEN CondDelEval(delete_condition, c.min, c.max) ELSE "none"
            should_read == matched /\ state # "DEL_SATISFIED"
        IN GetFilteredPagesLoop(i + 1, cond_column, delete_condition, c.min, c.max,
              [page_indexes |-> IF should_read THEN Append(acc.page_indexes, i)
                                ELSE acc.page_indexes,
               evals |-> IF evaluated THEN acc.evals \cup {i} ELSE acc.evals,
               del_evals |-> IF state # "none" THEN acc.del_evals \cup {i}
                             ELSE acc.del_evals,
               pairs |-> IF evaluated \/ state # "none"
                         THEN acc.pairs \cup {[page |-> i, min |-> c.min, max |-> c.max]}
                         ELSE acc.pairs])

\* ColumnReader::_get_filtered_pages
GetFilteredPages(cond_column, delete_condition) ==
    GetFilteredPagesLoop(1, cond_column, delete_condition, NewWrapperField, NewWrapperField,
                         [page_indexes |-> <<>>, evals |-> {}, del_evals |-> {}, pairs |-> {}])

\* RowRanges is modelled by the set of ordinals it covers;
\* RowRanges::create_single(from, to) is [from, to)
RowRangeSingle(from, to) == {k \in from..(to - 1) : TRUE}

\* _calculate_row_ranges, the loop over page_indexes
RECURSIVE UnionPageRanges(_, _, _)
UnionPageRanges(page_indexes, j, row_ranges) ==
    IF j > Len(page_indexes) THEN row_ranges
    ELSE UnionPageRanges(page_indexes, j + 1,
            row_ranges \cup RowRangeSingle(get_first_ordinal(page_indexes[j]),
                                           get_last_ordinal(page_indexes[j]) + 1))

\* _calculate_row_ranges without the row_ranges->clear()
CalculateRowRanges_NoClear(page_indexes, row_ranges) ==
    UnionPageRanges(page_indexes, 1, row_ranges)

\* ColumnReader::_calculate_row_ranges(page_indexes, row_ranges)
CalculateRowRanges(page_indexes, row_ranges) ==
    UnionPageRanges(page_indexes, 1, {})

\* ColumnReader::get_row_ranges_by_zone_map(cond_column, delete_condition, row_ranges)
GetRowRangesByZoneMap(cond_column, delete_condition, row_ranges) ==
    LET f == GetFilteredPages(cond_column, delete_condition)
    IN [row_ranges |-> CalculateRowRanges(f.page_indexes, row_ranges),
        page_indexes |-> f.page_indexes, evals |-> f.evals, del_evals |-> f.del_evals,
        pairs |-> f.pairs]

NoZoneMapIndex ==
    [has_zone_map |-> FALSE, page_zone_maps |-> <<>>,
     segment_zone_map |-> ZoneMap(0, 0, FALSE, FALSE, FALSE)]

NoPushdown ==
    [op |-> "none", cond |-> NoCond, del |-> NoCond, before |-> {}, row_ranges |-> {},
     page_indexes |-> <<>>, evals |-> {}, del_evals |-> {}, pairs |-> {},
     matched |-> FALSE, ran |-> FALSE, st |-> "OK"]

(* ------------------------- the iterator machine ----------------------- *)
\* columns of 0..MaxRows rows cut into pages of at least one row (the column
\* of no rows has an ordinal index without pages); a page has a null bitmap
\* exactly when one of its rows is null
RECURSIVE Compositions(_)
Compositions(n) ==
    IF n = 0 THEN {<<>>}
    ELSE UNION {{<<first>> \o rest : rest \in Compositions(n - first)} : first \in 1..n}

Columns ==
    UNION {{[sizes |-> s, nulls |-> b, encoding |-> "PLAIN_ENCODING", dict_pages |-> <<>>]
            : s \in Compositions(n), b \in [1..n -> BOOLEAN]}
           : n \in 0..MaxRows}

NoCall == [op |-> "none", arg |-> 0, rows |-> <<>>, has_null |-> FALSE,
           start |-> 0, reads |-> 0, lookups |-> 0, st |-> "OK"]

Init ==
    /\ col \in Columns
    /\ it = InitIt
    /\ last = NoCall
    /\ anchor = [kind |-> "none", ord |-> 0, calls |-> 0]
    /\ got = <<>>
    /\ dst = <<>>
    /\ its = <<>>
    /\ solo = <<>>
    /\ rd = NoZoneMapIndex
    /\ call = NoPushdown

DoSeekToFirst ==
    LET r == SeekToFirst(it)
    IN /\ it' = r.it
       /\ last' = [op |-> "seek_to_first", arg |-> 0, rows |-> <<>>, has_null |-> FALSE,
                   start |-> it.current_ordinal, reads |-> r.reads,
                   lookups |-> r.lookups, st |-> r.st]
       /\ anchor' = [kind |-> "first", ord |-> 0, calls |-> 0]
       /\ got' = <<>>
       /\ UNCHANGED <<col, rd, call, its, solo, dst>>

\* the ordinals a caller seeks to: those of the column, any when the ordinal
\* index has no page
SeekOrdinals == IF NumPages = 0 THEN 0..(MaxRows - 1) ELSE 0..(NumRows - 1)

DoSeekToOrdinal ==
    \E ord \in SeekOrdinals :
        LET r == SeekToOrdinal(it, ord)
        IN /\ it' = r.it
           /\ last' = [op |-> "seek_to_ordinal", arg |-> ord, rows |-> <<>>,
                       has_null |-> FALSE, start |-> it.current_ordinal,
                       reads |-> r.reads, lookups |-> r.lookups, st |-> r.st]
           /\ anchor' = [kind |-> "ordinal", ord |-> ord, calls |-> 0]
           /\ got' = <<>>
           /\ UNCHANGED <<col, rd, call, its, solo, dst>>

\* next_batch is called on a positioned iterator (after a seek)
DoNextBatch ==
    /\ PageLoaded(it.page)
    /\ \E n \in 1..MaxN, has_null_in \in BOOLEAN :
        LET r == NextBatch(it, n, has_null_in)
        IN /\ it' = r.it
           /\ last' = [op |-> "next_batch", arg |-> n, rows |-> r.rows,
                       has_null |-> r.has_null, start |-> it.current_ordinal,
                       reads |-> r.reads, lookups |-> 0, st |-> r.st]
           /\ got' = got \o r.rows
           /\ anchor' = [anchor EXCEPT !.calls = Min(@ + 1, 2)]
           /\ UNCHANGED <<col, rd, call, its, solo, dst>>

DoNextBatchVec ==
    /\ PageLoaded(it.page)
    /\ \E n \in 1..MaxN, has_null_in \in BOOLEAN :
        LET r == NextBatchVec(it, n, has_null_in)
        IN /\ it' = r.it
           /\ last' = [op |-> "next_batch_vec", arg |-> n, rows |-> r.rows,
                       has_null |-> r.has_null, start |-> it.current_ordinal,
                       reads |-> r.reads, lookups |-> 0, st |-> r.st]
           /\ got' = got \o r.rows
           /\ anchor' = [anchor EXCEPT !.calls = Min(@ + 1, 2)]
           /\ UNCHANGED <<col, rd, call, its, solo, dst>>

Next == DoSeekToFirst \/ DoSeekToOrdinal \/ DoNextBatch \/ DoNextBatchVec

Spec == Init /\ [][Next]_vars


(* ------------------------- the pushdown machine ----------------------- *)
\* the ordinal index of a column of p data pages for the pushdown: each page
\* holds three rows, enough for a null, a min and a max (the pushdown reads
\* the ordinal index and the zone maps, never the rows)
ZoneColumn(p) ==
    [sizes |-> [i \in 1..p |-> 3], nulls |-> [k \in 1..(3 * p) |-> FALSE]]

\* a reader without zone-map index, or one with a zone map for each of up to
\* MaxZonePages pages and the segment zone map merged from them
InitZone ==
    /\ \E p \in 0..MaxZonePages :
          /\ col = ZoneColumn(p)
          /\ \/ rd = NoZoneMapIndex
             \/ \E z \in [1..p -> WrittenZoneMaps] :
                   rd = [has_zone_map |-> TRUE, page_zone_maps |-> z,
                         segment_zone_map |-> MergeZoneMaps(z, p)]
    /\ it = InitIt
    /\ last = NoCall
    /\ anchor = [kind |-> "none", ord |-> 0, calls |-> 0]
    /\ got = <<>>
    /\ dst = <<>>
    /\ its = <<>>
    /\ solo = <<>>
    /\ call = NoPushdown

\* the ranges the caller's RowRanges object may hold before the call
RangesBefore == {{}, 0..(NumRows - 1)}

\* FileColumnIterator::get_row_ranges_by_zone_map hands the call to the reader
\* when it has a zone-map index and returns OK without it; ran says whether
\* the reader was called
DoGetRowRangesByZoneMap ==
    /\ call.op = "none"
    /\ \E cond \in Conds, del \in DelConds, before \in RangesBefore :
          IF rd.has_zone_map
          THEN LET r == GetRowRangesByZoneMap(cond, del, before)
               IN call' = [op |-> "get_row_ranges_by_zone_map", cond |-> cond,
                           del |-> del, before |-> before,
                           row_ranges |-> r.row_ranges,
                           page_indexes |-> r.page_indexes, evals |-> r.evals,
                           del_evals |-> r.del_evals, pairs |-> r.pairs,
                           matched |-> FALSE, ran |-> TRUE, st |-> "OK"]
          ELSE call' = [NoPushdown EXCEPT !.op = "get_row_ranges_by_zone_map",
                                          !.cond = cond, !.del = del,
                                          !.before = before, !.row_ranges = before]
    /\ UNCHANGED <<col, it, last, anchor, got, rd, its, solo, dst>>

DoMatchCondition ==
    /\ call.op = "none"
    /\ \E cond \in Conds :
          call' = [NoPushdown EXCEPT !.op = "match_condition", !.cond = cond,
                                     !.matched = MatchCondition(cond)]
    /\ UNCHANGED <<col, it, last, anchor, got, rd, its, solo, dst>>

NextZone == DoGetRowRangesByZoneMap \/ DoMatchCondition

SpecZone == InitZone /\ [][NextZone]_vars

(* ------------------------ claims on the pushdown ---------------------- *)
IsZoneCall == call.op = "get_row_ranges_by_zone_map" /\ call.ran
IsMatchCall == call.op = "match_condition"
PageSpan(i) == RowRangeSingle(get_first_ordinal(i), get_last_ordinal(i) + 1)
FullRange == RowRangeSingle(0, NumRows)
Accepted == {call.page_indexes[j] : j \in 1..Len(call.page_indexes)}
EmptyZone(z) == ~z.has_not_null /\ ~z.has_null
PageZone(i) == rd.page_zone_maps[i]

\* what the parsing rule gives for one zone map alone
OwnMin(z) == ParseZoneMap(z, NewWrapperField, NewWrapperField).min
OwnMax(z) == ParseZoneMap(z, NewWrapperField, NewWrapperField).max

\* C5 as claimed: with a condition that is true on every range and no delete
\* condition, get_row_ranges_by_zone_map returns [0, num_rows) for every
\* assignment of page zone maps.
C5_TrueCondGivesFullRange ==
    (IsZoneCall /\ call.cond = TrueCond /\ call.del = NoCond) => call.row_ranges = FullRange

\* C5 amended: with a condition that is true on every range and no delete
\* condition, the result is [0, num_rows) less the spans of the pages whose
\* zone map is empty (neither has_null nor has_not_null) and not pass_all;
\* it is the full range when no page has such a zone map.
C5_TrueCondGivesAllButEmptyZones ==
    (IsZoneCall /\ call.cond = TrueCond /\ call.del = NoCond) =>
        call.row_ranges =
            FullRange \ UNION {PageSpan(i) : i \in {j \in 1..NumPages :
                                   EmptyZone(PageZone(j)) /\ ~PageZone(j).pass_all}}

\* C5 witness: the full range returned for several pages, one of them pass_all
\* and one with nulls and values
C5_Witness ==
    /\ IsZoneCall /\ call.cond = TrueCond /\ call.del = NoCond
    /\ NumPages >= 2
    /\ call.row_ranges = FullRange
    /\ \E i \in 1..NumPages : PageZone(i).pass_all
    /\ \E i \in 1..NumPages : ~PageZone(i).pass_all /\ PageZone(i).has_null
                              /\ PageZone(i).has_not_null

\* does page i pass by its own zone map?
AcceptsByOwnZoneMap(i) ==
    \/ PageZone(i).pass_all
    \/ /\ ZoneMapMatchCondition(PageZone(i), OwnMin(PageZone(i)), OwnMax(PageZone(i)),
                                call.cond)
       /\ \/ call.del = NoCond
          \/ CondDelEval(call.del, OwnMin(PageZone(i)), OwnMax(PageZone(i)))
                # "DEL_SATISFIED"

\* C6: page i is accepted exactly when it is pass_all (and then no condition
\* is evaluated for it), or its zone map matches the condition and the delete
\* condition is null or not DEL_SATISFIED on the page's {min, max}; the
\* result is the union of the accepted pages' ordinal spans.
C6_AcceptedExactlyByOwnZoneMap ==
    IsZoneCall =>
        /\ \A i \in 1..NumPages : (i \in Accepted) <=> AcceptsByOwnZoneMap(i)
        /\ \A i \in 1..NumPages :
              PageZone(i).pass_all => i \notin (call.evals \cup call.del_evals)
        /\ call.row_ranges = UNION {PageSpan(i) : i \in Accepted}

\* C7 as claimed: a page with an empty zone map is left out of the result
\* whatever its pass_all flag, and match_condition on an empty segment zone
\* map returns false for every condition.
C7_EmptyZoneNeverIncluded ==
    /\ IsZoneCall =>
          \A i \in 1..NumPages :
              EmptyZone(PageZone(i)) => PageSpan(i) \cap call.row_ranges = {}
    /\ (IsMatchCall /\ rd.has_zone_map /\ EmptyZone(rd.segment_zone_map)) => ~call.matched

\* C7 amended: a page with an empty zone map and pass_all false is left out
\* of the result for every condition and delete condition, while one with
\* pass_all true is included; match_condition on an empty segment zone map
\* returns false for every non-null condition, whatever pass_all is, and true
\* for the null condition.
C7_EmptyZoneIncludedOnlyIfPassAll ==
    /\ IsZoneCall =>
          \A i \in 1..NumPages :
              EmptyZone(PageZone(i)) =>
                  IF PageZone(i).pass_all THEN PageSpan(i) \subseteq call.row_ranges
                  ELSE PageSpan(i) \cap call.row_ranges = {}
    /\ (IsMatchCall /\ rd.has_zone_map /\ EmptyZone(rd.segment_zone_map)) =>
          (call.matched <=> call.cond = NoCond)

\* C7 witness: a call that returns the span of another page and leaves out a
\* page with an empty zone map, with a condition and a delete condition given
C7_Witness ==
    /\ IsZoneCall /\ call.cond # NoCond /\ call.del # NoCond
    /\ call.row_ranges # {}
    /\ \E i \in 1..NumPages :
          /\ EmptyZone(PageZone(i)) /\ ~PageZone(i).pass_all
          /\ PageSpan(i) \cap call.row_ranges = {}

\* does a row that a page with zone map z must hold satisfy condition c?  The
\* page holds its min and its max when has_not_null, and a null when has_null.
SatValue(c, v) ==
    CASE c.op = "TRUE" -> TRUE
      [] c.op = "LE" -> v <= c.operand
      [] c.op = "GE" -> v >= c.operand
      [] c.op = "IS_NOT_NULL" -> TRUE
      [] OTHER -> FALSE
SatNull(c) == c.op \in {"TRUE", "IS_NULL"}
SomeRowSatisfies(z, c) ==
    \/ z.has_not_null /\ (SatValue(c, z.min) \/ SatValue(c, z.max))
    \/ z.has_null /\ SatNull(c)

\* C8: pushdown is conservative: with no delete condition, a page that holds
\* a row satisfying the condition has its ordinal span in the result.
C8_ZoneMapPushdownConservative ==
    (IsZoneCall /\ call.del = NoCond /\ call.cond # NoCond) =>
        \A i \in 1..NumPages :
            SomeRowSatisfies(PageZone(i), call.cond) => PageSpan(i) \subseteq call.row_ranges

\* the segment zone map refutes the condition: evaluating it on the parsed
\* {min, max} gives false
SegmentRefutes(c) ==
    ~CondEval(c, OwnMin(rd.segment_zone_map), OwnMax(rd.segment_zone_map))

\* C9 as claimed: match_condition is true for a condition that is true on
\* every range, for every segment zone map; true without zone-map index or
\* with a null condition; false when the segment zone map (not pass_all)
\* refutes the condition.
C9_MatchConditionTrueForTrueCond ==
    IsMatchCall =>
        /\ call.cond = TrueCond => call.matched
        /\ (~rd.has_zone_map \/ call.cond = NoCond) => call.matched
        /\ (rd.has_zone_map /\ call.cond # NoCond /\ ~rd.segment_zone_map.pass_all
              /\ SegmentRefutes(call.cond)) => ~call.matched

\* C9 amended: match_condition is true without zone-map index or with a null
\* condition; otherwise it is false for an empty segment zone map (neither
\* has_null nor has_not_null), also for a condition that is true on every
\* range; for a non-empty one it is true for such a condition, and false when
\* the segment zone map (not pass_all) refutes the condition.
C9_MatchConditionTrueUnlessEmptyZone ==
    IsMatchCall =>
        /\ (~rd.has_zone_map \/ call.cond = NoCond) => call.matched
        /\ (rd.has_zone_map /\ call.cond = TrueCond) =>
              (call.matched <=> ~EmptyZone(rd.segment_zone_map))
        /\ (rd.has_zone_map /\ call.cond # NoCond /\ ~rd.segment_zone_map.pass_all
              /\ SegmentRefutes(call.cond)) => ~call.matched

\* C9 witness: a segment zone map with values and no nulls, not pass_all,
\* refutes a range condition and match_condition returns false
C9_Witness ==
    /\ IsMatchCall /\ rd.has_zone_map
    /\ call.cond \in RangeConds
    /\ rd.segment_zone_map.has_not_null /\ ~rd.segment_zone_map.has_null
    /\ ~rd.segment_zone_map.pass_all
    /\ SegmentRefutes(call.cond)
    /\ ~call.matched

\* C10: the result replaces what the output RowRanges held: it is the union
\* of the accepted pages' spans, the same as for an output that was empty
\* before the call.
C10_ResultReplacesRowRanges ==
    IsZoneCall =>
        /\ call.row_ranges = UNION {PageSpan(i) : i \in Accepted}
        /\ call.row_ranges = GetRowRangesByZoneMap(call.cond, call.del, {}).row_ranges

\* C10 witness: the output held the full range before the call and holds
\* some but not all of the pages after it
C10_Witness ==
    /\ IsZoneCall
    /\ call.before = FullRange
    /\ call.row_ranges # {}
    /\ call.row_ranges # FullRange

(* ------------------------ claims on the iterator ---------------------- *)
IsBatch == last.op \in {"next_batch", "next_batch_vec"}
AnyNull(rows) == \E j \in 1..Len(rows) : rows[j].null

\* C1: after seek_to_ordinal(k) succeeds, a next_batch asking for m rows
\* returns exactly the rows at ordinals [k, k + min(m, num_rows - k)), in
\* order: null where the column is null, the stored value otherwise, also
\* across page boundaries.
C1_SeekThenBatchReturnsRowsFromK ==
    (anchor.kind = "ordinal" /\ anchor.calls = 1) =>
        /\ last.st = "OK"
        /\ last.rows = Rows(anchor.ord, anchor.ord + Min(last.arg, NumRows - anchor.ord))

\* C1 witness: a batch read right after a seek into the middle of a page with
\* nulls, which returns a null and a value and ends in the next page
C1_Witness ==
    /\ anchor.kind = "ordinal" /\ anchor.calls = 1 /\ IsBatch
    /\ anchor.ord > get_first_ordinal(IndexSeekAtOrBefore(anchor.ord))
    /\ PageHasNull(IndexSeekAtOrBefore(anchor.ord))
    /\ it.page.index > IndexSeekAtOrBefore(anchor.ord)
    /\ AnyNull(last.rows)
    /\ \E j \in 1..Len(last.rows) : ~last.rows[j].null

\* a fresh iterator that only did seek_to_ordinal(k)
FreshSeek(k) == SeekToOrdinal(InitIt, k).it

\* C2: whatever seeks and reads came before, after seek_to_ordinal(k) the
\* iterator is in the state of a fresh iterator that only did
\* seek_to_ordinal(k), and the next_batch that follows returns the rows such
\* a fresh iterator returns and leaves the same state.
C2_SeekForgetsHistory ==
    /\ (last.op = "seek_to_ordinal" /\ last.st = "OK") => it = FreshSeek(last.arg)
    /\ (anchor.kind = "ordinal" /\ anchor.calls = 1 /\ last.op = "next_batch") =>
          /\ last.rows = NextBatch(FreshSeek(anchor.ord), last.arg, FALSE).rows
          /\ it = NextBatch(FreshSeek(anchor.ord), last.arg, FALSE).it
    /\ (anchor.kind = "ordinal" /\ anchor.calls = 1 /\ last.op = "next_batch_vec") =>
          /\ last.rows = NextBatchVec(FreshSeek(anchor.ord), last.arg, FALSE).rows
          /\ it = NextBatchVec(FreshSeek(anchor.ord), last.arg, FALSE).it

\* C2 witness: a backward seek inside the loaded page, which has nulls before
\* the target, done without reading a page
C2_Witness ==
    /\ last.op = "seek_to_ordinal" /\ last.reads = 0
    /\ last.arg < last.start
    /\ PageHasNull(it.page.index)
    /\ it.page.offset_in_page > 0
    /\ it.page.data_pos < it.page.offset_in_page

\* C3: after seek_to_first, next_batch(n) calls with no seek in between each
\* return min(n, rows left) rows, the batches are contiguous from ordinal 0,
\* and never go past num_rows: at the end of the column the call returns only
\* the rows it produced.
C3_FirstThenBatchesAreContiguous ==
    (anchor.kind = "first" /\ IsBatch) =>
        /\ Len(last.rows) = Min(last.arg, NumRows - (Len(got) - Len(last.rows)))
        /\ got = Rows(0, Len(got))
        /\ Len(got) <= NumRows
        /\ it.current_ordinal = Len(got)

\* C3 witness: the second or later batch after seek_to_first reaches the end
\* of a column of several pages and returns fewer rows than asked for
C3_Witness ==
    /\ anchor.kind = "first" /\ anchor.calls = 2 /\ IsBatch
    /\ NumPages >= 2
    /\ Len(got) = NumRows
    /\ Len(last.rows) >= 1
    /\ Len(last.rows) < last.arg

\* C4: for both forms of next_batch, has_null is true exactly when one of the
\* rows the call returned is null (false for a call that returns no rows or
\* only values, whatever has_null held before).
C4_HasNullIffANullRowReturned ==
    IsBatch => (last.has_null <=> AnyNull(last.rows))

\* C4 witness: a call that returns values only, from a page that has nulls
C4_Witness ==
    /\ IsBatch
    /\ Len(last.rows) >= 1
    /\ ~last.has_null
    /\ PageHasNull(it.page.index)


(* ---------------------- bloom-filter pushdown ------------------------- *)
\* RowRanges handed in by the caller: the sorted, disjoint, non-adjacent
\* ranges [from, to) that cover a set of ordinals
RunEnd(S, k) == CHOOSE e \in k..NumRows : (\A j \in k..(e - 1) : j \in S) /\ e \notin S
RECURSIVE RangesFrom(_, _)
RangesFrom(S, k) ==
    IF k >= NumRows THEN <<>>
    ELSE IF k \in S THEN <<[from |-> k, to |-> RunEnd(S, k)]>> \o RangesFrom(S, RunEnd(S, k))
    ELSE RangesFrom(S, k + 1)
RowRangesOf(S) == RangesFrom(S, 0)

\* the ordinals a RowRanges covers
RangeOrdinals(ranges) ==
    UNION {RowRangeSingle(ranges[i].from, ranges[i].to) : i \in 1..Len(ranges)}

\* a condition the bloom filter can test, and CondColumn::eval(bf): bf is
\* the answer of the page's bloom filter for the condition's operand
BfCond == [op |-> "EQ", operand |-> 0]

\* a condition that no bloom filter can answer
RangeCond == [op |-> "GE", operand |-> 0]

\* CondColumn::can_do_bloom_filter
CanDoBloomFilter(c) == c.op = "EQ"
CondEvalBf(c, bf) == bf

\* the inner loop that takes the page of `from` only
CoverPages_FirstPageOnly(idx, to, iter, page_ids) ==
    IF idx < to /\ IterValid(iter) THEN page_ids \cup {iter} ELSE page_ids

\* get_row_ranges_by_bloom_filter, the inner while loop: the pages from the
\* cursor on that start before `to`
RECURSIVE CoverPages(_, _, _, _)
CoverPages(idx, to, iter, page_ids) ==
    IF idx < to /\ IterValid(iter)
    THEN CoverPages(get_last_ordinal(iter) + 1, to, IterNext(iter), page_ids \cup {iter})
    ELSE page_ids

\* get_row_ranges_by_bloom_filter, the loop over the input ranges
RECURSIVE CoveredPageIds(_, _, _)
CoveredPageIds(ranges, i, page_ids) ==
    IF i > Len(ranges) THEN page_ids
    ELSE CoveredPageIds(ranges, i + 1,
            CoverPages(ranges[i].from, ranges[i].to,
                       IndexSeekAtOrBefore(ranges[i].from), page_ids))

\* the loop over page_ids: the spans of the pages whose filter passes
BfRowRanges(cond_column, page_ids) ==
    UNION {RowRangeSingle(get_first_ordinal(pid), get_last_ordinal(pid) + 1)
           : pid \in {q \in page_ids : CondEvalBf(cond_column, rd.bloom_filters[q])}}

\* ColumnReader::get_row_ranges_by_bloom_filter(cond_column, row_ranges);
\* unreadable is the set of pages whose bloom filter cannot be read
GetRowRangesByBloomFilter(cond_column, row_ranges, unreadable) ==
    LET page_ids == CoveredPageIds(row_ranges, 1, {})
    IN IF page_ids \cap unreadable # {}
       THEN [st |-> "IOError", row_ranges |-> RangeOrdinals(row_ranges), page_ids |-> page_ids]
       ELSE [st |-> "OK",
             row_ranges |-> RangeOrdinals(row_ranges) \cap BfRowRanges(cond_column, page_ids),
             page_ids |-> page_ids]

\* columns of 1..MaxRows rows without nulls
PlainColumns ==
    UNION {{[sizes |-> s, nulls |-> [k \in 1..n |-> FALSE]] : s \in Compositions(n)}
           : n \in 1..MaxRows}

\* the wrapper that does not ask the condition whether it can use a bloom
\* filter
BloomPushdownApplies_NoCanDoTest(cond_column) ==
    cond_column # NoCond /\ rd.has_bloom_filter_index

\* FileColumnIterator::get_row_ranges_by_bloom_filter, the test before the
\* call of the reader
BloomPushdownApplies(cond_column) ==
    /\ cond_column # NoCond
    /\ CanDoBloomFilter(cond_column)
    /\ rd.has_bloom_filter_index

\* the zone map written for every page of a column in which every page holds
\* values of 0..MaxVal and no null
PlainZoneMap == ZoneMap(0, MaxVal, FALSE, TRUE, FALSE)

NoBloomCall ==
    [op |-> "none", cond |-> NoCond, before |-> {}, ran |-> FALSE, st |-> "OK",
     row_ranges |-> {}, page_ids |-> {}]

InitBloom ==
    /\ col \in PlainColumns
    /\ \E has \in BOOLEAN, b \in [1..NumPages -> BOOLEAN], zm \in BOOLEAN :
          rd = [has_bloom_filter_index |-> has, bloom_filters |-> b,
                has_zone_map |-> zm,
                page_zone_maps |-> IF zm THEN [i \in 1..NumPages |-> PlainZoneMap]
                                   ELSE <<>>,
                segment_zone_map |-> IF zm THEN PlainZoneMap
                                     ELSE NoZoneMapIndex.segment_zone_map]
    /\ it = InitIt
    /\ last = NoCall
    /\ anchor = [kind |-> "none", ord |-> 0, calls |-> 0]
    /\ got = <<>>
    /\ dst = <<>>
    /\ its = <<>>
    /\ solo = <<>>
    /\ call = NoBloomCall

\* FileColumnIterator::get_row_ranges_by_bloom_filter: the reader is asked
\* when there is a condition that can use a bloom filter and a bloom-filter
\* index
DoGetRowRangesByBloomFilter ==
    /\ call.op = "none"
    /\ \E cond \in {NoCond, BfCond, RangeCond}, before \in SUBSET (0..(NumRows - 1)),
          bad \in {{}} \cup {{p} : p \in 1..NumPages} :
          LET ran == BloomPushdownApplies(cond)
              r == GetRowRangesByBloomFilter(cond, RowRangesOf(before), bad)
          IN call' = [op |-> "get_row_ranges_by_bloom_filter", cond |-> cond,
                      before |-> before, ran |-> ran,
                      st |-> IF ran THEN r.st ELSE "OK",
                      row_ranges |-> IF ran THEN r.row_ranges ELSE before,
                      page_ids |-> IF ran THEN r.page_ids ELSE {}]
    /\ UNCHANGED <<col, it, last, anchor, got, rd, its, solo, dst>>

NextBloom == DoGetRowRangesByBloomFilter \/ DoGetRowRangesByZoneMap

SpecBloom == InitBloom /\ [][NextBloom]_vars

(* -------------------- claims on the bloom-filter pushdown ------------- *)
PageOf(k) == CHOOSE i \in 1..NumPages : k >= get_first_ordinal(i) /\ k <= get_last_ordinal(i)
BloomRan == call.op = "get_row_ranges_by_bloom_filter" /\ call.ran /\ call.st = "OK"

\* C11: for input ranges inside [0, num_rows), an ordinal is in the output of
\* get_row_ranges_by_bloom_filter iff it is in the input and the bloom filter
\* of its page passes the condition; every page that overlaps the input is
\* tested; the output is a subset of the input.
C11_BloomOutputIsInputOnPassingPages ==
    BloomRan =>
        /\ \A k \in 0..(NumRows - 1) :
              k \in call.row_ranges <=>
                  (k \in call.before /\ CondEvalBf(call.cond, rd.bloom_filters[PageOf(k)]))
        /\ call.page_ids = {PageOf(k) : k \in call.before}
        /\ call.row_ranges \subseteq call.before

\* an input range that spans more than one page, with a passing page that is
\* not the first one of the range and a page that fails
C11_Witness ==
    /\ BloomRan
    /\ \E k \in call.before :
          /\ k + 1 \in call.before
          /\ PageOf(k) # PageOf(k + 1)
          /\ k + 1 \in call.row_ranges
    /\ call.row_ranges # call.before
    /\ call.row_ranges # {}

(* ----------------------- ColumnReader::create / init ------------------ *)
\* most index descriptors in a column's metadata
MaxIndexes == 3

\* ColumnIndexTypePB, and a value outside it
IndexTypes ==
    {"ORDINAL_INDEX", "ZONE_MAP_INDEX", "BITMAP_INDEX", "BLOOM_FILTER_INDEX", "UNKNOWN_INDEX"}

\* what get_type_info, EncodingInfo::get and get_block_compression_codec say
\* about the metadata's type, encoding and compression
Lookups == {"OK", "NoTypeInfo", "NoEncoding", "NoCodec"}

\* ColumnMetaPB of a scalar column: indexes(i) for i in 1..indexes_size
ColumnMetas ==
    [lookup : Lookups, num_rows : 0..1,
     indexes : UNION {[1..n -> IndexTypes] : n \in 0..MaxIndexes}]

\* a reader as the constructor leaves it: every index meta pointer is null (0);
\* a non-null pointer is the position of the descriptor it points at
NewColumnReader(meta) ==
    [meta |-> meta, num_rows |-> meta.num_rows, ordinal_index_meta |-> 0,
     zone_map_index_meta |-> 0, bitmap_index_meta |-> 0, bf_index_meta |-> 0]

\* ColumnReader::is_empty
IsEmpty(r) == r.num_rows = 0

\* init, the loop over _meta.indexes from descriptor i on
RECURSIVE InitIndexes(_, _)
InitIndexes(r, i) ==
    IF i > Len(r.meta.indexes) THEN [st |-> "OK", r |-> r]
    ELSE CASE r.meta.indexes[i] = "ORDINAL_INDEX" ->
                  InitIndexes([r EXCEPT !.ordinal_index_meta = i], i + 1)
           [] r.meta.indexes[i] = "ZONE_MAP_INDEX" ->
                  InitIndexes([r EXCEPT !.zone_map_index_meta = i], i + 1)
           [] r.meta.indexes[i] = "BITMAP_INDEX" ->
                  InitIndexes([r EXCEPT !.bitmap_index_meta = i], i + 1)
           [] r.meta.indexes[i] = "BLOOM_FILTER_INDEX" ->
                  InitIndexes([r EXCEPT !.bf_index_meta = i], i + 1)
           [] OTHER -> [st |-> "Corruption", r |-> r]

\* init that asks for an ordinal index of an empty column too
ColumnReaderInit_NoEmptyTest(r) ==
    IF r.meta.lookup = "NoTypeInfo" THEN [st |-> "NotSupported", r |-> r]
    ELSE IF r.meta.lookup # "OK" THEN [st |-> r.meta.lookup, r |-> r]
    ELSE LET x == InitIndexes(r, 1)
         IN IF x.st # "OK" THEN x
            ELSE IF x.r.ordinal_index_meta = 0
                 THEN [st |-> "Corruption", r |-> x.r]
                 ELSE [st |-> "OK", r |-> x.r]

\* ColumnReader::init
ColumnReaderInit(r) ==
    IF r.meta.lookup = "NoTypeInfo" THEN [st |-> "NotSupported", r |-> r]
    ELSE IF r.meta.lookup # "OK" THEN [st |-> r.meta.lookup, r |-> r]
    ELSE LET x == InitIndexes(r, 1)
         IN IF x.st # "OK" THEN x
            ELSE IF x.r.ordinal_index_meta = 0 /\ ~IsEmpty(x.r)
                 THEN [st |-> "Corruption", r |-> x.r]
                 ELSE [st |-> "OK", r |-> x.r]

\* ColumnReader::create for a scalar type: the reader is handed out when init
\* succeeds
ColumnReaderCreate(meta) ==
    LET x == ColumnReaderInit(NewColumnReader(meta))
    IN [st |-> x.st, r |-> x.r, reader |-> x.st = "OK"]

NoCreateCall == [op |-> "none", st |-> "OK", reader |-> FALSE]

InitCreate ==
    /\ col = [sizes |-> <<>>, nulls |-> <<>>]
    /\ \E meta \in ColumnMetas : rd = NewColumnReader(meta)
    /\ it = InitIt
    /\ last = NoCall
    /\ anchor = [kind |-> "none", ord |-> 0, calls |-> 0]
    /\ got = <<>>
    /\ dst = <<>>
    /\ its = <<>>
    /\ solo = <<>>
    /\ call = NoCreateCall

DoCreate ==
    /\ call.op = "none"
    /\ LET x == ColumnReaderCreate(rd.meta)
       IN /\ rd' = x.r
          /\ call' = [op |-> "create", st |-> x.st, reader |-> x.reader]
    /\ UNCHANGED <<col, it, last, anchor, got, its, solo, dst>>

NextCreate == DoCreate

SpecCreate == InitCreate /\ [][NextCreate]_vars

(* ------------------------ claims on create / init --------------------- *)
Created == call.op = "create"
IndexesOfType(t) == {i \in 1..Len(rd.meta.indexes) : rd.meta.indexes[i] = t}
HasUnknownIndex == IndexesOfType("UNKNOWN_INDEX") # {}
HasDuplicateIndex ==
    \E t \in IndexTypes \ {"UNKNOWN_INDEX"} : Cardinality(IndexesOfType(t)) > 1
HasOrdinalIndex == IndexesOfType("ORDINAL_INDEX") # {}

\* C12: init fails with Corruption when the index list of the metadata (of
\* supported type, encoding and compression) contains an unknown index type or
\* two index descriptors of the same type.
C12_InitRejectsUnknownOrDuplicateIndex ==
    (Created /\ rd.meta.lookup = "OK" /\ (HasUnknownIndex \/ HasDuplicateIndex))
        => call.st = "Corruption"

\* C13: init fails when the metadata has no ordinal index and the column has
\* at least one row, with Corruption when the type, encoding and compression
\* are supported; without an ordinal index and with zero rows it succeeds when
\* those are supported and no index type is unknown; every reader that was
\* created with num_rows > 0 has ordinal-index metadata.
C13_OrdinalIndexMandatoryUnlessEmpty ==
    Created =>
        /\ (~HasOrdinalIndex /\ rd.num_rows > 0) =>
              /\ call.st # "OK"
              /\ rd.meta.lookup = "OK" => call.st = "Corruption"
        /\ (~HasOrdinalIndex /\ rd.num_rows = 0 /\ rd.meta.lookup = "OK" /\ ~HasUnknownIndex)
              => call.st = "OK"
        /\ (call.reader /\ rd.num_rows > 0) =>
              (rd.ordinal_index_meta # 0 /\ HasOrdinalIndex)

\* an empty column without ordinal index but with another index was created
C13_Witness ==
    /\ Created
    /\ call.reader
    /\ rd.num_rows = 0
    /\ ~HasOrdinalIndex
    /\ rd.meta.indexes # <<>>

(* ------------------------ lazy index loading -------------------------- *)
\* most threads that call into one reader
MaxThreads == 2
Threads == 1..MaxThreads

\* the index members of the reader, in the order _ensure_index_loaded loads them
IndexMembers == <<"zone_map_index", "ordinal_index", "bitmap_index", "bloom_filter_index">>

\* the operations that need indices, and the index objects each one reads
IndexOps ==
    {"get_row_ranges_by_zone_map", "get_row_ranges_by_bloom_filter", "seek_to_first",
     "seek_at_or_before", "new_bitmap_index_iterator"}
IndexesReadBy(op) ==
    CASE op = "get_row_ranges_by_zone_map" -> {"zone_map_index", "ordinal_index"}
      [] op = "get_row_ranges_by_bloom_filter" -> {"bloom_filter_index", "ordinal_index"}
      [] op = "new_bitmap_index_iterator" -> {"bitmap_index"}
      [] OTHER -> {"ordinal_index"}

\* a created reader of a column with rows: index metadata as init left it
\* (the ordinal index is there), no index object yet, the once cell unused
ReadersBeforeLoad ==
    {[has_meta |-> [m \in {IndexMembers[k] : k \in 1..4} |->
                        IF m = "ordinal_index" THEN TRUE ELSE m \in present],
      index |-> [m \in {IndexMembers[k] : k \in 1..4} |-> "nullptr"],
      loads |-> [m \in {IndexMembers[k] : k \in 1..4} |-> 0],
      once |-> [state |-> "new", st |-> "OK"]]
     : present \in SUBSET {"zone_map_index", "bitmap_index", "bloom_filter_index"}}

\* a call-once cell that lets every caller run the function until one run
\* has completed
CallOnceEnter_Unguarded(once) ==
    IF once.state = "done" THEN "return" ELSE "run"

\* DorisCallOnce::call as a caller meets it: the first caller runs the function,
\* a caller that arrives while it runs waits, a later one returns its status
CallOnceEnter(once) ==
    CASE once.state = "new" -> "run"
      [] once.state = "running" -> "wait"
      [] OTHER -> "return"

IdleThread == [pc |-> "idle", op |-> "none", step |-> 0, st |-> "OK", read_unloaded |-> FALSE]

InitLoad ==
    /\ col = [sizes |-> <<1>>, nulls |-> <<FALSE>>]
    /\ rd \in ReadersBeforeLoad
    /\ it = InitIt
    /\ last = NoCall
    /\ anchor = [kind |-> "none", ord |-> 0, calls |-> 0]
    /\ got = <<>>
    /\ dst = <<>>
    /\ its = <<>>
    /\ solo = <<>>
    /\ call = [t \in Threads |-> IdleThread]

\* a thread calls an operation of the reader (the callers ask for a zone-map,
\* bloom-filter or bitmap operation when the column has that index)
DoCallIndexOp(t) ==
    /\ call[t].pc = "idle"
    /\ \E op \in IndexOps :
          /\ \A m \in IndexesReadBy(op) : rd.has_meta[m]
          /\ call' = [call EXCEPT ![t] = [IdleThread EXCEPT !.pc = "ensure", !.op = op]]
    /\ UNCHANGED <<col, it, last, anchor, got, rd, its, solo, dst>>

\* RETURN_IF_ERROR(_ensure_index_loaded()): enter the once cell
DoEnsureIndexLoaded(t) ==
    /\ call[t].pc = "ensure"
    /\ LET e == CallOnceEnter(rd.once)
       IN /\ e # "wait"
          /\ IF e = "run"
             THEN /\ rd' = [rd EXCEPT !.once.state = "running"]
                  /\ call' = [call EXCEPT ![t].pc = "reset", ![t].step = 1]
             ELSE /\ rd' = rd
                  /\ call' = [call EXCEPT ![t].pc = IF rd.once.st = "OK" THEN "use" ELSE "done",
                                          ![t].st = rd.once.st]
    /\ UNCHANGED <<col, it, last, anchor, got, its, solo, dst>>

\* _load_*_index, first half: member.reset(new ...IndexReader) when there is
\* metadata for it; after the last index the once cell completes
DoLoadIndexReset(t) ==
    /\ call[t].pc = "reset"
    /\ LET k == call[t].step
       IN IF k > 4
          THEN /\ rd' = [rd EXCEPT !.once = [state |-> "done", st |-> "OK"]]
               /\ call' = [call EXCEPT ![t].pc = "use"]
          ELSE IF rd.has_meta[IndexMembers[k]]
          THEN /\ rd' = [rd EXCEPT !.index[IndexMembers[k]] = "unloaded",
                                   !.loads[IndexMembers[k]] = Min(@ + 1, 2)]
               /\ call' = [call EXCEPT ![t].pc = "load"]
          ELSE /\ rd' = rd
               /\ call' = [call EXCEPT ![t].step = k + 1]
    /\ UNCHANGED <<col, it, last, anchor, got, its, solo, dst>>

\* _load_*_index, second half: member->load(...) returns; a failure ends
\* _ensure_index_loaded and is the status of the once cell
DoLoadIndexFinish(t) ==
    /\ call[t].pc = "load"
    /\ LET k == call[t].step
       IN \E ok \in BOOLEAN :
             IF ok
             THEN /\ rd' = [rd EXCEPT !.index[IndexMembers[k]] = "loaded"]
                  /\ call' = [call EXCEPT ![t].pc = "reset", ![t].step = k + 1]
             ELSE /\ rd' = [rd EXCEPT !.once = [state |-> "done", st |-> "IOError"]]
                  /\ call' = [call EXCEPT ![t].pc = "done", ![t].st = "IOError"]
    /\ UNCHANGED <<col, it, last, anchor, got, its, solo, dst>>

\* the rest of the operation: it reads the index objects it needs and returns
DoUseIndexes(t) ==
    /\ call[t].pc = "use"
    /\ call' = [call EXCEPT ![t].pc = "done",
                            ![t].read_unloaded =
                                \E m \in IndexesReadBy(call[t].op) : rd.index[m] # "loaded"]
    /\ UNCHANGED <<col, it, last, anchor, got, rd, its, solo, dst>>

NextLoad ==
    \E t \in Threads :
        \/ DoCallIndexOp(t)
        \/ DoEnsureIndexLoaded(t)
        \/ DoLoadIndexReset(t)
        \/ DoLoadIndexFinish(t)
        \/ DoUseIndexes(t)

SpecLoad == InitLoad /\ [][NextLoad]_vars

(* ---------------------- claims on lazy index loading ------------------ *)
\* C14: when several threads concurrently call operations of one reader that
\* need its indices, each index is loaded at most once and no thread reads an
\* index object before its load has completed.
C14_EachIndexLoadedOnceBeforeUse ==
    /\ \A k \in 1..4 : rd.loads[IndexMembers[k]] <= 1
    /\ \A t \in Threads : ~call[t].read_unloaded
    /\ \A t \in Threads :
          call[t].pc = "use" =>
              \A m \in IndexesReadBy(call[t].op) : rd.index[m] = "loaded"

\* every thread has completed an operation, among them a zone-map and a
\* bloom-filter pushdown, and each of the four indices was loaded
C14_Witness ==
    /\ \A t \in Threads : call[t].pc = "done" /\ call[t].st = "OK"
    /\ \E t \in Threads : call[t].op = "get_row_ranges_by_bloom_filter"
    /\ \E t \in Threads : call[t].op = "get_row_ranges_by_zone_map"
    /\ \A k \in 1..4 : rd.loads[IndexMembers[k]] = 1

(* ------------------- iterators of a dict-encoded column --------------- *)
\* most data pages of the dict-encoded column
MaxDictPages == 2

\* a dict-encoded column of p data pages of two rows each; d says which data
\* pages are dict-encoded (the others fell back to plain encoding)
DictColumn(p, d) ==
    [sizes |-> [i \in 1..p |-> 2], nulls |-> [k \in 1..(2 * p) |-> FALSE],
     encoding |-> "DICT_ENCODING", dict_pages |-> d]

\* the handles of the two iterators the callers hold
Handles == {1, 2}
Other(h) == CHOOSE g \in Handles : g # h

\* new_iterator that hands the same iterator object to every caller
NewIterator_SameObject(h) == 1

\* ColumnReader::new_iterator: a new FileColumnIterator object for each call
NewIterator(h) == h

NoIterCall ==
    [h |-> 0, op |-> "none", arg |-> 0, rows |-> <<>>, solo_rows |-> <<>>,
     dict_disk_reads |-> 0, other_had_dict |-> FALSE]

InitDict ==
    /\ \E p \in 1..MaxDictPages : \E d \in [1..p -> BOOLEAN] : col = DictColumn(p, d)
    /\ rd = [dict_page_cached |-> FALSE]
    /\ \E u \in [Handles -> BOOLEAN] :
          /\ its = [h \in Handles |-> [InitIt EXCEPT !.use_page_cache = u[h]]]
          /\ solo = [h \in Handles |->
                        [it |-> [InitIt EXCEPT !.use_page_cache = u[h]], dict_page_loads |-> 0]]
    /\ it = InitIt
    /\ last = NoIterCall
    /\ anchor = [kind |-> "none", ord |-> 0, calls |-> 0]
    /\ got = <<>>
    /\ dst = <<>>
    /\ call = NoPushdown

\* the data pages an operation loaded: a seek loads the page it lands on, a
\* batch the pages after the one it started on
PagesLoaded(old, r, op) ==
    IF r.reads = 0 THEN {}
    ELSE IF op = "next_batch" THEN (old.page.index + 1)..r.it.page.index
    ELSE {r.it.page.index}

\* one call on the iterator of handle h: r is what the call does on the
\* iterator object, rs what it does on the iterator driven alone
IterCall(h, op, arg, r, rs) ==
    LET old == its[NewIterator(h)]
        loads == Cardinality({q \in PagesLoaded(old, r, op) : col.dict_pages[q]})
    IN /\ its' = [its EXCEPT ![NewIterator(h)] = r.it]
       /\ solo' = [solo EXCEPT ![h] = [it |-> rs.it,
                                       dict_page_loads |-> Min(@.dict_page_loads + loads, 2)]]
       /\ rd' = [rd EXCEPT !.dict_page_cached =
                     @ \/ (old.use_page_cache /\ r.it.dict_reads > old.dict_reads)]
       /\ last' = [h |-> h, op |-> op, arg |-> arg, rows |-> r.rows, solo_rows |-> rs.rows,
                   dict_disk_reads |-> r.it.dict_disk_reads - old.dict_disk_reads,
                   other_had_dict |-> its[NewIterator(Other(h))].dict_decoder]
       /\ UNCHANGED <<col, it, anchor, got, call, dst>>

DoIterSeekToFirst(h) ==
    LET r == SeekToFirst(its[NewIterator(h)])
        rs == SeekToFirst(solo[h].it)
    IN IterCall(h, "seek_to_first", 0, [it |-> r.it, reads |-> r.reads, rows |-> <<>>],
                [it |-> rs.it, reads |-> rs.reads, rows |-> <<>>])

DoIterSeekToOrdinal(h) ==
    \E ord \in 0..(NumRows - 1) :
        LET r == SeekToOrdinal(its[NewIterator(h)], ord)
            rs == SeekToOrdinal(solo[h].it, ord)
        IN IterCall(h, "seek_to_ordinal", ord, [it |-> r.it, reads |-> r.reads, rows |-> <<>>],
                    [it |-> rs.it, reads |-> rs.reads, rows |-> <<>>])

DoIterNextBatch(h) ==
    /\ PageLoaded(its[NewIterator(h)].page)
    /\ PageLoaded(solo[h].it.page)
    /\ \E n \in 1..MaxN :
          LET r == NextBatch(its[NewIterator(h)], n, FALSE)
              rs == NextBatch(solo[h].it, n, FALSE)
          IN IterCall(h, "next_batch", n, [it |-> r.it, reads |-> r.reads, rows |-> r.rows],
                      [it |-> rs.it, reads |-> rs.reads, rows |-> rs.rows])

NextDict ==
    \E h \in Handles :
        \/ DoIterSeekToFirst(h)
        \/ DoIterSeekToOrdinal(h)
        \/ DoIterNextBatch(h)

SpecDict == InitDict /\ [][NextDict]_vars

(* --------------- claims on iterators and the dictionary page ---------- *)
Object(h) == its[NewIterator(h)]
SameCursor(a, b) ==
    /\ a.page = b.page
    /\ a.page_iter = b.page_iter
    /\ a.current_ordinal = b.current_ordinal
    /\ a.dict_decoder = b.dict_decoder

C16_DictionaryReadOncePerIterator ==
    \A h \in Handles :
        /\ Object(h).dict_reads = IF solo[h].dict_page_loads > 0 THEN 1 ELSE 0
        /\ Object(h).dict_decoder = (solo[h].dict_page_loads > 0)
        /\ PageLoaded(Object(h).page) =>
              Object(h).page.has_dict = col.dict_pages[Object(h).page.index]

\* an iterator that has loaded dict-encoded data pages twice or more, in a
\* column that also has a plain-encoded page, after one dictionary read
C16_Witness ==
    \E h \in Handles :
        /\ solo[h].dict_page_loads = 2
        /\ Object(h).dict_reads = 1
        /\ \E q \in 1..NumPages : ~col.dict_pages[q]
        /\ last.h = h /\ last.op = "next_batch"

\* C17: after one iterator of a reader has loaded the dictionary page, a
\* second iterator created from the same reader reads dict-encoded data pages
\* without a read of the dictionary page from the file.
C17_SecondIteratorReadsNoDictionaryPage ==
    (last.op # "none" /\ last.other_had_dict) => last.dict_disk_reads = 0

(* ------------------------ ArrayFileColumnIterator --------------------- *)
\* most arrays in the array column, and most items in one array
MaxArrays == 3
MaxLen == 2

\* an array column as stored: the length of each array (the offsets child
\* column), whether the column is nullable (then the null child column holds
\* one marker per array); the item child column holds the items of all arrays
\* one after the other, item k being the k-th of the stream
ArrayColumns ==
    UNION {{[lengths |-> l, nullable |-> b] : l \in [1..n -> 0..MaxLen], b \in BOOLEAN}
           : n \in 1..MaxArrays}
NumArrays == Len(col.lengths)
NumItems == SumTo(col.lengths, NumArrays)

\* next_batch of a child iterator, seen as a cursor over its column: it
\* gives the next min(n, rest) rows, or fails and gives nothing
ChildNextBatch(len, pos, n, fails) ==
    IF fails THEN [st |-> "IOError", n |-> 0, from |-> pos, pos |-> pos]
    ELSE [st |-> "OK", n |-> Min(n, len - pos), from |-> pos, pos |-> pos + Min(n, len - pos)]

\* the rows from + 1 .. to of a child column whose row k holds k
ChildRows(from, to) == [j \in 1..(to - from) |-> from + j]

\* ArrayColumnVectorBatch: offsets[i + 1] is the offset slot i of the batch
\* get_offset_by_length(start, n): the n lengths in slots start+1..start+n
\* become offsets, each the sum of the slot before and the length
RECURSIVE GetOffsetByLength(_, _, _)
GetOffsetByLength(offsets, start, lens) ==
    IF lens = <<>> THEN SubSeq(offsets, 1, start + 1)
    ELSE LET before == GetOffsetByLength(offsets, start, SubSeq(lens, 1, Len(lens) - 1))
         IN Append(before, before[Len(before)] + lens[Len(lens)])

\* get_item_size that counts the arrays instead of their items
GetItemSize_CountsArrays(offsets, start, n) == n

\* get_item_size(start, n): the items of the arrays in slots start .. start+n-1
GetItemSize(offsets, start, n) == offsets[start + n + 1] - offsets[start + 1]

\* item_offset(i)
ItemOffset(offsets, i) == offsets[i + 1]

\* the iterator after init, and an empty destination block
InitArrayIt == [length_pos |-> 0, null_pos |-> 0, item_pos |-> 0]
NewArrayBlock == [current_offset |-> 0, offsets |-> <<0>>, nulls |-> <<>>, items |-> <<>>]

\* ArrayFileColumnIterator::next_batch(n, dst, has_null); fail names the child
\* read that fails in this call, if it is reached
ArrayNextBatch(a, d, n, has_null_in, fail) ==
    LET cur == d.current_offset
        lr == ChildNextBatch(NumArrays, a.length_pos, n, fail = "offsets")
    IN IF lr.st # "OK"
       THEN [st |-> lr.st, it |-> a, dst |-> d, n |-> n, has_null |-> has_null_in,
             items |-> <<>>, failed |-> {"offsets"}]
       ELSE IF lr.n = 0
       THEN [st |-> "OK", it |-> a, dst |-> d, n |-> 0, has_null |-> has_null_in,
             items |-> <<>>, failed |-> {}]
       ELSE
         LET a1 == [a EXCEPT !.length_pos = lr.pos]
             offsets == GetOffsetByLength(d.offsets, cur,
                                          SubSeq(col.lengths, lr.from + 1, lr.pos))
             nr == ChildNextBatch(NumArrays, a1.null_pos, lr.n, fail = "nulls")
             a2 == IF col.nullable THEN [a1 EXCEPT !.null_pos = nr.pos] ELSE a1
             \* the status of the null read is dropped; a failed read leaves
             \* the null slots as they were (0 here)
             nulls == IF col.nullable
                      THEN SubSeq(d.nulls, 1, cur) \o
                           (IF nr.st = "OK" THEN ChildRows(nr.from, nr.pos)
                            ELSE [j \in 1..lr.n |-> 0])
                      ELSE d.nulls
             nfailed == IF col.nullable /\ nr.st # "OK" THEN {"nulls"} ELSE {}
             item_size == GetItemSize(offsets, cur, lr.n)
             ir == ChildNextBatch(NumItems, a2.item_pos, item_size, fail = "items")
             d1 == [d EXCEPT !.offsets = offsets, !.nulls = nulls]
         IN IF ir.st # "OK"
            THEN [st |-> ir.st, it |-> a2, dst |-> d1, n |-> lr.n, has_null |-> col.nullable,
                  items |-> <<>>, failed |-> nfailed \cup {"items"}]
            ELSE [st |-> "OK", it |-> [a2 EXCEPT !.item_pos = ir.pos],
                  dst |-> [d1 EXCEPT !.items = SubSeq(d.items, 1, ItemOffset(offsets, cur))
                                                 \o ChildRows(ir.from, ir.pos),
                                     !.current_offset = cur + lr.n],
                  n |-> lr.n, has_null |-> col.nullable,
                  items |-> ChildRows(ir.from, ir.pos), failed |-> nfailed]

NoArrayCall ==
    [op |-> "none", arg |-> 0, n |-> 0, st |-> "OK", has_null |-> FALSE, items |-> <<>>,
     failed |-> {}, first_array |-> 0, errors |-> FALSE]

InitArray ==
    /\ col \in ArrayColumns
    /\ it = InitArrayIt
    /\ dst = NewArrayBlock
    /\ last = NoArrayCall
    /\ anchor = [kind |-> "none", ord |-> 0, calls |-> 0]
    /\ got = <<>>
    /\ rd = NoZoneMapIndex
    /\ call = NoPushdown
    /\ its = <<>>
    /\ solo = <<>>

\* next_batch into the block the caller is filling, or into a new block; the
\* caller stops at the first call that returns a failure
DoArrayNextBatch ==
    /\ ~last.errors
    /\ \E n \in 1..MaxN, fresh \in BOOLEAN, fail \in {"none", "offsets", "nulls", "items"} :
          LET d == IF fresh THEN NewArrayBlock ELSE dst
              r == ArrayNextBatch(it, d, n, FALSE, fail)
          IN /\ it' = r.it
             /\ dst' = r.dst
             /\ got' = got \o r.items
             /\ last' = [op |-> "next_batch", arg |-> n, n |-> r.n, st |-> r.st,
                         has_null |-> r.has_null, items |-> r.items, failed |-> r.failed,
                         first_array |-> it.length_pos, errors |-> r.st # "OK"]
    /\ UNCHANGED <<col, anchor, rd, call, its, solo>>

NextArray == DoArrayNextBatch

SpecArray == InitArray /\ [][NextArray]_vars

(* ----------------------- claims on the array iterator ----------------- *)
\* C18: every failure raised inside an operation is returned to its caller:
\* when a child-iterator read fails during the array next_batch (offsets read,
\* null-marker read, item read), next_batch returns that failure, not OK.
C18_ChildReadFailureIsReturned ==
    (last.op = "next_batch" /\ last.failed # {}) => last.st # "OK"

\* sum of the lengths of the arrays from + 1 .. to
LengthsSum(from, to) == SumTo(col.lengths, to) - SumTo(col.lengths, from)

\* C19: over any sequence of next_batch calls the offsets written for the
\* returned arrays are monotone non-decreasing, each call reads from the item
\* child exactly the sum of the lengths of the arrays it returns, and the
\* concatenation of the item outputs of all calls is the item stream in
\* order, no item skipped or read twice.
C19_ArrayItemsFollowOffsets ==
    (last.op = "next_batch" /\ last.st = "OK") =>
        /\ \A i \in 1..(Len(dst.offsets) - 1) : dst.offsets[i] <= dst.offsets[i + 1]
        /\ Len(last.items) = LengthsSum(last.first_array, last.first_array + last.n)
        /\ it.length_pos = last.first_array + last.n
        /\ got = ChildRows(0, SumTo(col.lengths, it.length_pos))
        /\ it.item_pos = Len(got)

\* a second or later call that returned arrays with items, one of them empty,
\* into a block that already held arrays
C19_Witness ==
    /\ last.op = "next_batch" /\ last.st = "OK"
    /\ last.first_array > 0
    /\ dst.current_offset > last.n
    /\ last.items # <<>>
    /\ \E k \in (last.first_array + 1)..(last.first_array + last.n) : col.lengths[k] = 0
    /\ Len(got) > Len(last.items)

(* ---------------------- DefaultValueColumnIterator -------------------- *)
\* the default strings of the schema: the special "NULL", one that parses as
\* a value of every type, one that parses as a string only
DefaultStrings == {"NULL", "1", "x"}
DefaultTypes ==
    {"OLAP_FIELD_TYPE_INT", "OLAP_FIELD_TYPE_CHAR", "OLAP_FIELD_TYPE_VARCHAR",
     "OLAP_FIELD_TYPE_ARRAY"}

\* the iterator as constructed for a column that the segment does not have;
\* dcheck says whether the build compiles DCHECK in
DefaultValueIterators ==
    [has_default_value : BOOLEAN, default_value : DefaultStrings, is_nullable : BOOLEAN,
     type : DefaultTypes, dcheck : BOOLEAN, is_default_value_null : {FALSE},
     mem_value : {[data |-> "", padded |-> FALSE]}]

\* TypeInfo::from_string for a numeric type
NumericFromString(str) == IF str = "1" THEN "OK" ELSE "InvalidArgument"

\* DefaultValueColumnIterator::init
DefaultValueInit(d) ==
    IF d.has_default_value
    THEN IF d.default_value = "NULL"
         THEN IF d.dcheck /\ ~d.is_nullable
              THEN [st |-> "Aborted", it |-> d]
              ELSE [st |-> "OK", it |-> [d EXCEPT !.is_default_value_null = TRUE]]
         ELSE CASE d.type = "OLAP_FIELD_TYPE_CHAR" ->
                      [st |-> "OK",
                       it |-> [d EXCEPT !.mem_value = [data |-> d.default_value, padded |-> TRUE]]]
                [] d.type = "OLAP_FIELD_TYPE_VARCHAR" ->
                      [st |-> "OK",
                       it |-> [d EXCEPT !.mem_value = [data |-> d.default_value, padded |-> FALSE]]]
                [] d.type = "OLAP_FIELD_TYPE_ARRAY" -> [st |-> "NotSupported", it |-> d]
                [] OTHER ->
                      IF NumericFromString(d.default_value) = "OK"
                      THEN [st |-> "OK",
                            it |-> [d EXCEPT !.mem_value = [data |-> d.default_value,
                                                            padded |-> FALSE]]]
                      ELSE [st |-> NumericFromString(d.default_value), it |-> d]
    ELSE IF d.is_nullable
    THEN [st |-> "OK", it |-> [d EXCEPT !.is_default_value_null = TRUE]]
    ELSE [st |-> "InternalError", it |-> d]

\* a row of the destination that holds the default value, and one that
\* next_batch advanced over without writing it
DefaultRow(d) == [null |-> FALSE, val |-> d.mem_value]
UnwrittenRow == [null |-> FALSE, val |-> [data |-> "", padded |-> FALSE]]

\* DefaultValueColumnIterator::next_batch(n, dst, has_null): the destination
\* is nullable when the column is
DefaultValueNextBatch(d, n, dst_is_nullable) ==
    IF d.is_default_value_null
    THEN [st |-> "OK", n |-> n, has_null |-> TRUE,
          rows |-> [j \in 1..n |-> IF dst_is_nullable THEN NullRow ELSE UnwrittenRow]]
    ELSE [st |-> "OK", n |-> n, has_null |-> FALSE, rows |-> [j \in 1..n |-> DefaultRow(d)]]

NoDefaultCall == [op |-> "none", arg |-> 0, st |-> "OK", n |-> 0, has_null |-> FALSE]

InitDefault ==
    /\ it \in DefaultValueIterators
    /\ last = NoDefaultCall
    /\ dst = <<>>
    /\ col = [sizes |-> <<>>, nulls |-> <<>>]
    /\ anchor = [kind |-> "none", ord |-> 0, calls |-> 0]
    /\ got = <<>>
    /\ rd = NoZoneMapIndex
    /\ call = NoPushdown
    /\ its = <<>>
    /\ solo = <<>>

DoDefaultInit ==
    /\ last.op = "none"
    /\ LET r == DefaultValueInit(it)
       IN /\ it' = r.it
          /\ last' = [NoDefaultCall EXCEPT !.op = "init", !.st = r.st]
    /\ UNCHANGED <<col, anchor, got, rd, call, its, solo, dst>>

\* next_batch is called after an init that succeeded
DoDefaultNextBatch ==
    /\ last.op # "none"
    /\ last.st = "OK"
    /\ \E n \in 1..MaxN :
          LET r == DefaultValueNextBatch(it, n, it.is_nullable)
          IN /\ dst' = r.rows
             /\ last' = [op |-> "next_batch", arg |-> n, st |-> r.st, n |-> r.n,
                         has_null |-> r.has_null]
    /\ UNCHANGED <<col, it, anchor, got, rd, call, its, solo>>

NextDefault == DoDefaultInit \/ DoDefaultNextBatch

SpecDefault == InitDefault /\ [][NextDefault]_vars

(* --------------------- claims on the default-value iterator ----------- *)
NullDefault == it.has_default_value /\ it.default_value = "NULL"

\* C20: init with has_default and default string "NULL" fails when the column
\* is not nullable and otherwise produces nulls; without a default it produces
\* nulls when nullable and fails with InternalError when not nullable; after a
\* successful init every next_batch(n) yields n rows that are all null exactly
\* when the default is null.
C20_DefaultValueInitRules ==
    /\ last.op = "init" =>
          /\ (NullDefault /\ ~it.is_nullable) => last.st # "OK"
          /\ (NullDefault /\ it.is_nullable) => (last.st = "OK" /\ it.is_default_value_null)
          /\ (~it.has_default_value /\ it.is_nullable) =>
                (last.st = "OK" /\ it.is_default_value_null)
          /\ (~it.has_default_value /\ ~it.is_nullable) => last.st = "InternalError"
    /\ last.op = "next_batch" =>
          /\ last.st = "OK" /\ last.n = last.arg /\ Len(dst) = last.arg
          /\ (\A j \in 1..Len(dst) : dst[j].null) <=> it.is_default_value_null
          /\ (NullDefault \/ ~it.has_default_value) <=> it.is_default_value_null

(* -------------------- more claims on the scalar iterator -------------- *)
IsSeek(l) == l.op \in {"seek_to_first", "seek_to_ordinal"}

\* C21: seek_to_first on a column whose ordinal index has no page, and
\* seek_to_ordinal when seek_at_or_before finds no page, return NotFound
\* without a page read and without changing current_ordinal or the loaded page.
C21_SeekNotFoundReadsAndChangesNothing ==
    [][(IsSeek(last') /\ ~IterValid(it'.page_iter)) =>
          /\ last'.st = "NotFound"
          /\ last'.reads = 0
          /\ it'.current_ordinal = it.current_ordinal
          /\ it'.page = it.page]_vars

\* seek_to_ordinal found no page, after a seek_to_first that found none either
C21_Witness ==
    /\ NumPages = 0
    /\ last.op = "seek_to_ordinal"
    /\ last.st = "NotFound"
    /\ last.lookups = 1
    /\ last.arg > 0

(* ------------------ create and new_iterator, array columns ------------ *)
\* FieldType of a column: OLAP_FIELD_TYPE_INT stands for the scalar types,
\* next to it ARRAY and these non-scalar types other than ARRAY
OtherTypes == {"OLAP_FIELD_TYPE_STRUCT", "OLAP_FIELD_TYPE_MAP"}

\* is_scalar_type
IsScalarType(t) == t = "OLAP_FIELD_TYPE_INT"

\* ColumnMetaPB of a scalar column, here the child of an array column
ChildMetas ==
    [type : {"OLAP_FIELD_TYPE_INT"}, is_nullable : {FALSE}, lookup : {"OK", "NoTypeInfo"},
     num_rows : 0..1, indexes : {<<>>, <<"ORDINAL_INDEX">>},
     children_columns : {<<>>}]

\* ColumnMetaPB of an array column: children_columns are item, offsets and,
\* for a nullable array, null
ArrayMetas ==
    {[type |-> "OLAP_FIELD_TYPE_ARRAY", is_nullable |-> nl, lookup |-> "OK",
      num_rows |-> 0, indexes |-> <<>>, children_columns |-> ch] :
        nl \in BOOLEAN, ch \in [1..2 -> ChildMetas] \cup [1..3 -> ChildMetas]}

\* ColumnMetaPB of a column of another non-scalar type
OtherMetas ==
    [type : OtherTypes, is_nullable : BOOLEAN, lookup : {"OK"}, num_rows : {0},
     indexes : {<<>>}, children_columns : {<<>>}]

\* the metadata create is called with; children_columns_size is 2 or 3, and
\* 3 when the array is nullable
CreateMetas ==
    ChildMetas \cup OtherMetas \cup
    {m \in ArrayMetas : m.is_nullable => Len(m.children_columns) = 3}

\* the constructor, with the _sub_readers of the reader
NewReader(meta, num_rows, subs) ==
    [meta |-> meta, num_rows |-> num_rows, ordinal_index_meta |-> 0,
     zone_map_index_meta |-> 0, bitmap_index_meta |-> 0, bf_index_meta |-> 0,
     sub_readers |-> subs]

\* create that takes the array reader's num_rows from its argument
ArrayNumRows_FromArgument(meta, num_rows) == num_rows

\* create, ARRAY: the num_rows the array reader is constructed with
ArrayNumRows(meta, num_rows) == meta.children_columns[2].num_rows

\* create that never makes the null child reader
ChildrenCreated_NoNullReader(meta) == <<1, 2>>

\* create, ARRAY: the children_columns a reader is created for, in order
ChildrenCreated(meta) == IF meta.is_nullable THEN <<1, 2, 3>> ELSE <<1, 2>>

RECURSIVE CreateReader(_, _)
RECURSIVE CreateChildren(_, _, _)

\* create, ARRAY: the child readers from the k-th created child on, each with
\* RETURN_IF_ERROR; subs are the readers made so far
CreateChildren(meta, k, subs) ==
    IF k > Len(ChildrenCreated(meta)) THEN [st |-> "OK", subs |-> subs]
    ELSE LET child == meta.children_columns[ChildrenCreated(meta)[k]]
             x == CreateReader(child, child.num_rows)
         IN IF x.st # "OK" THEN [st |-> x.st, subs |-> subs]
            ELSE CreateChildren(meta, k + 1, Append(subs, x.r))

\* ColumnReader::create; reader says whether *reader was assigned, r is the
\* reader it then holds
CreateReader(meta, num_rows) ==
    IF IsScalarType(meta.type)
    THEN LET x == ColumnReaderInit(NewReader(meta, num_rows, <<>>))
         IN [st |-> x.st, r |-> x.r, reader |-> x.st = "OK"]
    ELSE IF meta.type = "OLAP_FIELD_TYPE_ARRAY"
    THEN LET c == CreateChildren(meta, 1, <<>>)
         IN IF c.st # "OK"
            THEN [st |-> c.st, r |-> NewReader(meta, num_rows, <<>>), reader |-> FALSE]
            ELSE [st |-> "OK",
                  r |-> NewReader(meta, ArrayNumRows(meta, num_rows), c.subs),
                  reader |-> TRUE]
    ELSE [st |-> "NotSupported", r |-> NewReader(meta, num_rows, <<>>),
          reader |-> FALSE]

RECURSIVE ReaderNewIterator(_)
RECURSIVE NewChildIterators(_, _, _)

\* new_iterator, ARRAY: the iterators of _sub_readers from the k-th on, each
\* with RETURN_IF_ERROR
NewChildIterators(r, k, iters) ==
    IF k > (IF r.meta.is_nullable THEN 3 ELSE 2) THEN [st |-> "OK", iters |-> iters]
    ELSE LET x == ReaderNewIterator(r.sub_readers[k])
         IN IF x.st # "OK" THEN [st |-> x.st, iters |-> iters]
            ELSE NewChildIterators(r, k + 1, Append(iters, x))

\* ColumnReader::new_iterator: the class of the iterator and the child
\* iterators that were made for it
ReaderNewIterator(r) ==
    IF IsEmpty(r)
    THEN [st |-> "OK", kind |-> "EmptyFileColumnIterator", children |-> <<>>]
    ELSE IF IsScalarType(r.meta.type)
    THEN [st |-> "OK", kind |-> "FileColumnIterator", children |-> <<>>]
    ELSE IF r.meta.type = "OLAP_FIELD_TYPE_ARRAY"
    THEN LET c == NewChildIterators(r, 1, <<>>)
         IN IF c.st # "OK" THEN [st |-> c.st, kind |-> "none", children |-> <<>>]
            ELSE [st |-> "OK", kind |-> "ArrayFileColumnIterator",
                  children |-> c.iters]
    ELSE [st |-> "NotSupported", kind |-> "none", children |-> <<>>]

\* create has not been called: rd holds the metadata, call the num_rows
\* argument
InitNewIter ==
    /\ col = [sizes |-> <<>>, nulls |-> <<>>]
    /\ \E meta \in CreateMetas, num_rows \in 0..1 :
          /\ rd = NewReader(meta, num_rows, <<>>)
          /\ call = [op |-> "none", st |-> "OK", reader |-> FALSE,
                     num_rows |-> num_rows]
    /\ it = InitIt
    /\ last = NoCall
    /\ anchor = [kind |-> "none", ord |-> 0, calls |-> 0]
    /\ got = <<>>
    /\ dst = <<>>
    /\ its = <<>>
    /\ solo = <<>>

DoCreateReader ==
    /\ call.op = "none"
    /\ LET x == CreateReader(rd.meta, call.num_rows)
       IN /\ rd' = x.r
          /\ call' = [call EXCEPT !.op = "create", !.st = x.st,
                                  !.reader = x.reader]
    /\ UNCHANGED <<col, it, last, anchor, got, its, solo, dst>>

DoNewIterator ==
    /\ call.op = "create"
    /\ call.reader
    /\ its = <<>>
    /\ its' = <<ReaderNewIterator(rd)>>
    /\ UNCHANGED <<col, it, last, anchor, got, rd, call, solo, dst>>

NextNewIter == DoCreateReader \/ DoNewIterator

SpecNewIter == InitNewIter /\ [][NextNewIter]_vars

(* ------------------- claims on create and new_iterator ---------------- *)
IsArrayMeta == rd.meta.type = "OLAP_FIELD_TYPE_ARRAY"
OffsetsRows == rd.meta.children_columns[2].num_rows

\* C22: new_iterator returns the empty iterator exactly when the reader's
\* num_rows is 0, whatever the type of the column; the num_rows of an array
\* reader is the num_rows of its offsets child and not the num_rows argument
\* of create, so an array column with zero arrays gets the empty iterator and
\* no child iterator is made for it.
C22_EmptyIteratorIffNoRows ==
    its # <<>> =>
        /\ its[1].st = "OK"
        /\ (its[1].kind = "EmptyFileColumnIterator") <=> (rd.num_rows = 0)
        /\ IsArrayMeta => rd.num_rows = OffsetsRows
        /\ (IsArrayMeta /\ OffsetsRows = 0) =>
              /\ its[1].kind = "EmptyFileColumnIterator"
              /\ its[1].children = <<>>

\* an array column without arrays, created with a num_rows argument of 1, got
\* the empty iterator
C22_Witness ==
    /\ its # <<>>
    /\ IsArrayMeta
    /\ OffsetsRows = 0
    /\ call.num_rows = 1
    /\ its[1].kind = "EmptyFileColumnIterator"

\* what creating a reader for scalar child metadata m returns
ChildStatus(m) ==
    IF m.lookup = "NoTypeInfo" THEN "NotSupported"
    ELSE IF m.num_rows > 0 /\ m.indexes = <<>> THEN "Corruption"
    ELSE "OK"

\* the children of the array metadata whose reader cannot be created, among
\* item, offsets and, for a nullable array, null
FailingChildren ==
    {k \in 1..(IF rd.meta.is_nullable THEN 3 ELSE 2) :
        ChildStatus(rd.meta.children_columns[k]) # "OK"}

\* C23: create fails with NotSupported for every non-scalar type other than
\* ARRAY; for ARRAY the failure of creating the item, offsets or (nullable
\* array) null child reader is the result of create, and create succeeds when
\* none fails; whenever create fails the output reader is not assigned.
C23_CreateFailures ==
    call.op = "create" =>
        /\ (~IsScalarType(rd.meta.type) /\ ~IsArrayMeta) => call.st = "NotSupported"
        /\ (IsArrayMeta /\ FailingChildren # {}) =>
              \E k \in FailingChildren :
                  /\ \A j \in FailingChildren : k <= j
                  /\ call.st = ChildStatus(rd.meta.children_columns[k])
        /\ (IsArrayMeta /\ FailingChildren = {}) => call.st = "OK"
        /\ call.st # "OK" => ~call.reader

\* create of a nullable array failed on the null child alone
C23_Witness ==
    /\ call.op = "create"
    /\ IsArrayMeta
    /\ FailingChildren = {3}
    /\ call.st = "Corruption"
    /\ ~call.reader


(* ------------------- decoder positions inside a page ------------------ *)
\* rows of the loaded page that are null among its first n rows
NullsAmongFirst(n) ==
    Cardinality({k \in 1..n : PageNullBitmap(it.page.index)[k]})

\* C24: while a page with has_null is loaded, after any successful seeks and
\* batches, the null decoder stands at offset_in_page and the data decoder at
\* offset_in_page minus the number of nulls among the first offset_in_page
\* rows of the page.
C24_DecodersFollowOffsetInPage ==
    (PageLoaded(it.page) /\ PageHasNull(it.page.index) /\ last.st = "OK") =>
        /\ it.page.null_pos = it.page.offset_in_page
        /\ it.page.data_pos + NullsAmongFirst(it.page.offset_in_page)
               = it.page.offset_in_page

\* a forward seek inside a page with nulls, from a position behind a value to
\* one behind a null
C24_Witness ==
    /\ PageLoaded(it.page)
    /\ PageHasNull(it.page.index)
    /\ last.op = "seek_to_ordinal"
    /\ last.st = "OK"
    /\ last.reads = 0
    /\ it.page.data_pos >= 1
    /\ last.start > PageFirstOrdinal(it.page)
    /\ last.start < it.current_ordinal
    /\ NullsAmongFirst(it.page.offset_in_page) > 0


(* ---------------------- reuse of the loaded page ---------------------- *)
\* the step is seek_to_ordinal(ord) with ord inside the page that was loaded
\* before the call
SeekInsideLoadedPage ==
    /\ last'.op = "seek_to_ordinal"
    /\ PageContains(it.page, last'.arg)

C26_OrdinalIsPageStartPlusOffset ==
    (last.op # "none" /\ last.st = "OK" /\ PageLoaded(it.page)) =>
        /\ it.current_ordinal = PageFirstOrdinal(it.page) + it.page.offset_in_page
        /\ it.page.offset_in_page >= 0
        /\ it.page.offset_in_page <= PageRowsOf(it.page)
        /\ IterValid(it.page_iter) => it.page_iter = it.page.index

\* a batch went on into a later page and stopped inside it
C26_Witness ==
    /\ last.op \in {"next_batch", "next_batch_vec"}
    /\ last.st = "OK"
    /\ last.reads >= 1
    /\ IterValid(it.page_iter)
    /\ it.page.index > 1
    /\ it.page.offset_in_page > 0
    /\ it.page.offset_in_page < PageRowsOf(it.page)


(* ------------- the min/max containers of the zone-map filter ---------- *)
\* C27: in get_row_ranges_by_zone_map the {min, max} pair, values and null
\* flags, that cond.eval and del_eval get for page i is the one the parsing
\* rule gives for page i's zone map alone, whatever the zone maps of the pages
\* visited before it in the call, and so page i is accepted or not by its own
\* zone map and the two conditions.
C27_PairOfPageIsItsOwn ==
    IsZoneCall =>
        /\ \A e \in call.pairs :
              /\ e.min = OwnMin(PageZone(e.page))
              /\ e.max = OwnMax(PageZone(e.page))
        /\ \A i \in 1..NumPages : AcceptsByOwnZoneMap(i) <=> (i \in Accepted)


(* ------------------- child cursors of the array iterator -------------- *)
\* entries the offsets child gave in the step
OffsetsConsumed == it'.length_pos - it.length_pos

\* C28: in every next_batch call of a sequence of calls that return OK, the
\* null child (nullable column) gives as many entries as the offsets child,
\* the destination advances by that many arrays, the item child gives the sum
\* of the lengths of those arrays, and a call in which the offsets child gives
\* no entry takes nothing from the other children and does not advance the
\* destination.
C28_ChildCursorsInLockstep ==
    [][(last'.op = "next_batch" /\ last'.st = "OK") =>
          /\ col.nullable => it'.null_pos - it.null_pos = OffsetsConsumed
          /\ last'.n = OffsetsConsumed
          /\ it'.item_pos - it.item_pos = LengthsSum(it.length_pos, it'.length_pos)
          /\ OffsetsConsumed = 0 => (it' = it /\ last'.items = <<>>)]_vars


(* ---------------- the pushdown wrappers of the iterator --------------- *)
IsZoneWrapperCall == call.op = "get_row_ranges_by_zone_map"
IsBloomWrapperCall == call.op = "get_row_ranges_by_bloom_filter"

\* C29: FileColumnIterator::get_row_ranges_by_zone_map on a reader without
\* zone-map index, and FileColumnIterator::get_row_ranges_by_bloom_filter with
\* a null condition, a condition that cannot use a bloom filter or a reader
\* without bloom-filter index, return OK, leave the caller's row ranges as
\* they were and do not call the reader: no page's zone map or bloom filter is
\* looked at.
C29_WrappersDoNothingWithoutPushdown ==
    /\ (IsZoneWrapperCall /\ ~rd.has_zone_map) =>
          /\ call.st = "OK"
          /\ call.row_ranges = call.before
          /\ ~call.ran
          /\ call.pairs = {} /\ call.evals = {} /\ call.del_evals = {}
    /\ (IsBloomWrapperCall /\ (\/ call.cond = NoCond
                               \/ ~CanDoBloomFilter(call.cond)
                               \/ ~rd.has_bloom_filter_index)) =>
          /\ call.st = "OK"
          /\ call.row_ranges = call.before
          /\ ~call.ran
          /\ call.page_ids = {}

\* the bloom wrapper was called with a condition that cannot use a bloom
\* filter on a reader with bloom-filter index, no page's filter passing, and
\* kept the caller's ranges
C29_Witness ==
    /\ IsBloomWrapperCall
    /\ call.cond = RangeCond
    /\ rd.has_bloom_filter_index
    /\ \A p \in 1..NumPages : ~rd.bloom_filters[p]
    /\ call.before # {}
    /\ call.row_ranges = call.before

====
